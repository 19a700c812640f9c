-------------------------- MODULE ContinuationList --------------------------
(***************************************************************************)
(* The list of a thread's continuations that are traced (struct            *)
(* continuation_list, vm/vm_env.c): items linked both ways, one for each   *)
(* continuation object whose turning point is to follow the height of the  *)
(* running stack.  The domain of t.item is the set of items allocated; a   *)
(* pointer outside it leads to freed memory.                               *)
(***************************************************************************)
EXTENDS Naturals, SequencesExt

NoItem == 0
EmptyList == [item |-> <<>>, begin |-> NoItem, end |-> NoItem]

(* What is met along next, the pointer that ends the walk included: null,  *)
(* or an item that was freed.                                              *)
Chain(t) ==
    LET met[n \in 0 .. Cardinality(DOMAIN t.item)] ==
          IF n = 0 THEN <<t.begin>>
          ELSE LET p == Last(met[n - 1])
               IN IF p \in DOMAIN t.item THEN Append(met[n - 1], t.item[p].next)
                  ELSE met[n - 1]
    IN met[Cardinality(DOMAIN t.item)]
Traced(t) == ToSet(Chain(t)) \cap DOMAIN t.item
Sound(t) == ToSet(Chain(t)) \subseteq DOMAIN t.item \cup {NoItem}
Owner(t, i) == t.item[i].func
UnusedItem(t) == CHOOSE i \in 1 .. Cardinality(DOMAIN t.item) + 1 :
                    i \notin DOMAIN t.item /\ 1 .. i - 1 \subseteq DOMAIN t.item

AppendItem(t, f) ==
    LET i == UnusedItem(t)
        made == [t EXCEPT !.item = [j \in DOMAIN @ \cup {i} |->
                   IF j = i THEN [func |-> f, prev |-> NoItem, next |-> NoItem] ELSE @[j]]]
    IN IF t.begin = NoItem THEN [made EXCEPT !.begin = i, !.end = i]
       ELSE [made EXCEPT !.item[i].prev = t.end, !.item[t.end].next = i, !.end = i]

(* The item behind the one that goes is made to point back at itself, not  *)
(* at the item before: when it is removed in turn, begin goes on pointing  *)
(* at it.                                                                  *)
RemoveItem(t, i) ==
    LET it == t.item[i]
        before == IF it.prev # NoItem THEN [t EXCEPT !.item[it.prev].next = it.next]
                  ELSE [t EXCEPT !.begin = it.next]
        after == IF it.next # NoItem THEN [before EXCEPT !.item[it.next].prev = it.next]
                 ELSE [before EXCEPT !.end = it.prev]
    IN IF i \in Traced(t)
       THEN [after EXCEPT !.item = [j \in DOMAIN @ \ {i} |-> @[j]]]
       ELSE t

(* At one frame everything has been reached: nothing is traced any more.   *)
Clear(t) == [item |-> [j \in DOMAIN t.item \ Traced(t) |-> t.item[j]],
             begin |-> NoItem, end |-> NoItem]
AfterUpdate(t, size) == IF size = 1 THEN Clear(t) ELSE t

(* Mutant: the turning point follows the stack up as well as down. *)
FollowedUp(t, f, turningPoint, size) ==
    IF \E i \in Traced(t) : Owner(t, i) = f THEN size ELSE turningPoint

(* The turning point of function f when the stack has this many frames.    *)
Lowered(t, f, turningPoint, size) ==
    IF turningPoint > size /\ \E i \in Traced(t) : Owner(t, i) = f
    THEN size ELSE turningPoint
=============================================================================
