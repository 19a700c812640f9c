---------------------------- MODULE ArrayInternal ----------------------------
(***************************************************************************)
(* The shared part of an array (struct virtual_machine_object_array_       *)
(* internal, vm/vm_object_array.c): a block of slots of which size are in  *)
(* use from pos on, with room reserved on both sides.                      *)
(***************************************************************************)
EXTENDS Naturals, Integers, Sequences
CONSTANTS Freed,        (* a pointer to an object that was destroyed *)
          Null

Minimum == 9            (* ..._ARRAY_CAPACITY_MINIMUM_REQUIRED *)

Slots(n) == [i \in 0..(n - 1) |-> Null]
Live(a) == a.pos .. (a.pos + a.size - 1)

(* <Reserved> <Allocated> <Reserved>, each as large as the others. *)
New(count) == [nodes |-> Slots(3 * count), capacity |-> 3 * count,
               pos |-> count, size |-> count]

Make(elements) ==
    LET a == New(Len(elements))
    IN [a EXCEPT !.nodes = [i \in DOMAIN a.nodes |->
           IF i \in Live(a) THEN elements[i - a.pos + 1] ELSE Null]]

(* The copy has room for three times the size, but keeps the old position: *)
(* where that lies too far to the right the elements fall out of it.       *)
CloneFits(a) == a.pos + a.size <= 3 * a.size
Clone(a) ==
    LET new == [New(a.size) EXCEPT !.pos = a.pos]
    IN [new EXCEPT !.nodes = [i \in DOMAIN new.nodes |->
           IF i \in Live(a) THEN a.nodes[i] ELSE Null]]

InBounds(a, i) == a.size # 0 /\ i >= 0 /\ i < a.size
RefGet(a, i) == a.nodes[a.pos + i]
RefSet(a, i, e) == [a EXCEPT !.nodes[a.pos + i] = e]

(* The first element of a copy is destroyed, its slot left as it is. *)
Cdr(a) ==
    LET copy == Clone(a)
    IN [copy EXCEPT !.nodes[copy.pos] = Freed, !.pos = copy.pos + 1, !.size = copy.size - 1]

(* Room for three times the size, at least nine slots, the elements in the *)
(* middle.                                                                 *)
Extend(a) ==
    LET capacity == IF 3 * a.size > Minimum THEN 3 * a.size ELSE Minimum
        pos      == capacity \div 3
    IN [nodes |-> [i \in 0..(capacity - 1) |->
                      IF i \in pos .. (pos + a.size - 1) THEN a.nodes[a.pos + i - pos] ELSE Null],
        capacity |-> capacity, pos |-> pos, size |-> a.size]

(* Only the end is ever appended to: no instruction appends to the head. *)
AppendTail(a, e) ==
    LET b == IF a.pos + a.size >= a.capacity THEN Extend(a) ELSE a
    IN [b EXCEPT !.nodes[b.pos + b.size] = e, !.size = b.size + 1]

Elements(a) == [i \in 1..a.size |-> a.nodes[a.pos + i - 1]]
=============================================================================
