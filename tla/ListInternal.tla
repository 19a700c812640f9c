---------------------------- MODULE ListInternal ----------------------------
(***************************************************************************)
(* The part of a list that the list objects share (struct                  *)
(* virtual_machine_object_list_internal, vm/vm_object_list.c): a chain of  *)
(* doubly linked nodes, its two ends and its size.                         *)
(*                                                                         *)
(* A chain is what the two ways of walking it read: "next" holds the       *)
(* elements met from begin along next, "prev" the ones met from end along  *)
(* prev.  When the two links of every node agree, one is the other         *)
(* reversed.  Freed stands for what is read from a node that was given     *)
(* back.  The index over the nodes is left out: the counter that would     *)
(* have it built is only reached when the search misses, which an index in *)
(* bounds never does.                                                      *)
(***************************************************************************)
EXTENDS Naturals, Integers, SequencesExt
CONSTANT Freed

Empty == [next |-> <<>>, prev |-> <<>>, size |-> 0]

(* A first node sets both ends, whichever end was asked for. *)
AppendTail(l, e) ==
    IF l.next = <<>> THEN [next |-> <<e>>, prev |-> <<e>>, size |-> l.size + 1]
    ELSE [next |-> Append(l.next, e), prev |-> <<e>> \o l.prev, size |-> l.size + 1]

(* Mutant: the old head does not learn of the new one. *)
AppendHeadOneWay(l, e) ==
    IF l.next = <<>> THEN [next |-> <<e>>, prev |-> <<e>>, size |-> l.size + 1]
    ELSE [next |-> <<e>> \o l.next, prev |-> l.prev, size |-> l.size + 1]

(* begin->prev becomes the new node, also where it led to a freed node. *)
AppendHead(l, e) ==
    IF l.next = <<>> THEN [next |-> <<e>>, prev |-> <<e>>, size |-> l.size + 1]
    ELSE [next |-> <<e>> \o l.next,
          prev |-> Append(SubSeq(l.prev, 1, Len(l.next)), e), size |-> l.size + 1]

(* Mutant: the list is built from the other end. *)
MakeReversed(elements) == FoldRight(LAMBDA e, l : AppendTail(l, e), elements, Empty)

(* The elements of the stack from the top down. *)
Make(elements) ==
    LET made[n \in 0..Len(elements)] == IF n = 0 THEN Empty ELSE AppendTail(made[n - 1], elements[n])
    IN made[Len(elements)]

(* The copy is built along next: it is sound even where prev is not. *)
Clone(l) == Make(l.next)

InBounds(l, i) == l.size # 0 /\ i >= 0 /\ i < l.size
RefGet(l, i) == l.next[i + 1]
RefSet(l, i, e) ==
    [l EXCEPT !.next[i + 1] = e, !.prev[Len(l.next) - i] = e]

(* The head of a copy is freed: begin moves on, but neither the prev of    *)
(* the new head nor, when it was the only node, end is cleared.            *)
Cdr(l) == LET copy == Clone(l)
          IN [next |-> Tail(copy.next),
              prev |-> [copy.prev EXCEPT ![Len(copy.prev)] = Freed],
              size |-> copy.size - 1]

(* What LSTUNPACK pushes, first to last, before the size: it walks from    *)
(* end along prev; LSTUNPACKR walks from begin along next.                 *)
Unpack(l) == l.prev
UnpackReverse(l) == l.next

(* Whether the node behind the head is a freed one. *)
Cut(l) == Freed \in {l.prev[i] : i \in 1..Len(l.prev)}
=============================================================================
