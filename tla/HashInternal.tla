---------------------------- MODULE HashInternal ----------------------------
(***************************************************************************)
(* The shared part of a hash (struct virtual_machine_object_hash_internal, *)
(* vm/vm_object_hash.c): a list of nodes with a key and a value, searched  *)
(* from its begin with objects_eq, and a count of the nodes.               *)
(*                                                                         *)
(* A key may be Freed: REFSET hands over the key object of the stack,      *)
(* which is destroyed when the operands are popped.  A search that meets   *)
(* such a key before it ends reads freed memory (Unsafe).                  *)
(***************************************************************************)
EXTENDS Naturals, SequencesExt, FiniteSetsExt
CONSTANTS Freed,
          Eq(_, _)      (* objects_eq: never true of a composite object *)

Empty == [nodes |-> <<>>, size |-> 0]
Node(k, v) == [key |-> k, value |-> v]

At(h, k) == {i \in DOMAIN h.nodes : Eq(h.nodes[i].key, k)}
Exists(h, k) == At(h, k) # {}
Position(h, k) == Min(At(h, k))
Unsafe(h, k) == \E i \in DOMAIN h.nodes :
                   h.nodes[i].key = Freed /\ (Exists(h, k) => i < Position(h, k))

(* Mutant: the key object of the stack is kept, not a copy of it. *)
KeyNotCloned(h, k, v) == [nodes |-> Append(h.nodes, Node(Freed, v)), size |-> h.size + 1]

SetValue(h, k, v) == [h EXCEPT !.nodes[Position(h, k)].value = v]
AtTail(h, k, v) == [nodes |-> Append(h.nodes, Node(k, v)), size |-> h.size + 1]

(* A key that is there keeps its node and gets the new value. *)
AppendPair(h, k, v) == IF Exists(h, k) THEN SetValue(h, k, v) ELSE AtTail(h, k, v)

(* The stack holds, from the top down, value, key, value, key... *)
Make(pairs) ==
    LET made[n \in 0..Len(pairs)] ==
          IF n = 0 THEN Empty ELSE AppendPair(made[n - 1], pairs[n][1], pairs[n][2])
    IN made[Len(pairs)]

(* The node is unlinked and freed; the size is not counted down. *)
Delete(h, k) == IF Exists(h, k) THEN [h EXCEPT !.nodes = RemoveAt(h.nodes, Position(h, k))]
                ELSE h

RefGet(h, k) == h.nodes[Position(h, k)].value

(* REFSET: the value of a key that is there is replaced; otherwise the     *)
(* key of the stack goes into the hash and is destroyed with the stack's.  *)
RefSet(h, k, v) == IF Exists(h, k) THEN SetValue(h, k, v) ELSE AtTail(h, Freed, v)

Car(h) == Head(h.nodes).key
Cdr(h) == [nodes |-> Tail(h.nodes), size |-> h.size - 1]
=============================================================================
