---------------------------- MODULE ComputingStack ----------------------------
(***************************************************************************)
(* The computing stack of a frame: a list of objects, linked both ways     *)
(* (vm/vm_infrastructure.c, vm/vm_cpu_alu.c).  Instructions find objects   *)
(* from the top, through prev; the collector, a copy of the frame and the  *)
(* release of the stack go from the bottom, through next.  An object is a  *)
(* number that indexes objs, 0 is the NULL pointer.                        *)
(***************************************************************************)
EXTENDS Integers, SequencesExt, FiniteSetsExt

EmptyStack == [top |-> 0, bottom |-> 0, size |-> 0, objs |-> <<>>]

(* A block for a new object. *)
Slot(s) == Min((1..(Cardinality(DOMAIN s.objs) + 1)) \ DOMAIN s.objs)
NewObject(s, v) ==
    LET new == Slot(s)
    IN [s EXCEPT !.objs = [o \in DOMAIN @ \cup {new} |->
           IF o = new THEN [val |-> v, prev |-> 0, next |-> 0] ELSE @[o]]]

Link(s, o) ==
    IF s.bottom = 0 THEN [s EXCEPT !.bottom = o, !.top = o, !.size = @ + 1]
    ELSE [s EXCEPT !.objs[s.top].next = o, !.objs[o].prev = s.top, !.top = o, !.size = @ + 1]
Push(s, v) == Link(NewObject(s, v), Slot(s))

Pop(s) ==
    LET below == s.objs[s.top].prev
    IN IF below = 0 THEN EmptyStack
       ELSE [s EXCEPT !.top = below, !.size = @ - 1,
                      !.objs = [o \in DOMAIN @ \ {s.top} |->
                                  IF o = below THEN [@[o] EXCEPT !.next = 0] ELSE @[o]]]

(* The nth object from the top.                                            *)
Nth(s, n) == LET at[i \in 1..n] == IF i = 1 THEN s.top ELSE s.objs[at[i - 1]].prev
             IN at[n]

(* The objects met from o on along a field; the walk ends at NULL.         *)
Walk(s, o, field) ==
    LET reach[n \in 0..Cardinality(DOMAIN s.objs)] ==
          IF n = 0 THEN <<o>>
          ELSE LET met == reach[n - 1]
               IN IF Last(met) \in DOMAIN s.objs THEN Append(met, s.objs[Last(met)][field])
                  ELSE met
    IN Front(reach[Cardinality(DOMAIN s.objs)])
Downwards(s) == Walk(s, s.top, "prev")
Upwards(s) == Walk(s, s.bottom, "next")
Values(s) == [i \in 1..s.size |-> s.objs[Nth(s, i)].val]
-----------------------------------------------------------------------------
(* The nth object is taken out and put on the top.  The object that was on *)
(* the top keeps its next, which is NULL.  An object whose next is NULL    *)
(* and that is not the top cannot be taken: NULL is written through.       *)
NothingAbove(s, n) == s.objs[Nth(s, n)].next = 0
Pick(s, n) ==
    LET cur == Nth(s, n)
        prev == s.objs[cur].prev
        next == s.objs[cur].next
        taken == [s EXCEPT !.top = cur, !.objs[cur].next = 0, !.objs[cur].prev = s.top]
    IN IF prev = 0 THEN [taken EXCEPT !.bottom = next, !.objs[next].prev = 0]
       ELSE [taken EXCEPT !.objs[prev].next = next, !.objs[next].prev = prev]

PickCopy(s, n) == Push(s, s.objs[Nth(s, n)].val)

(* A copy of the top goes above the nth object. *)
InsertCopy(s, n) ==
    LET made == NewObject(s, s.objs[s.top].val)
        new == Slot(s)
        cur == Nth(s, n)
        next == s.objs[cur].next
    IN [made EXCEPT !.objs[cur].next = new, !.objs[next].prev = new,
                    !.objs[new].prev = cur, !.objs[new].next = next, !.size = @ + 1]

(* The n objects are taken off, their pointers cleared, and put on a       *)
(* second and a third stack and back again: turned round, in the end.      *)
TakenOff(s, n) ==
    LET taken == {Nth(s, i) : i \in 1..n}
        top == IF n = s.size THEN 0 ELSE Nth(s, n + 1)
    IN [s EXCEPT !.top = top, !.size = @ - n, !.bottom = IF top = 0 THEN 0 ELSE @,
                 !.objs = [o \in DOMAIN @ |->
                             IF o \in taken THEN [@[o] EXCEPT !.prev = 0, !.next = 0] ELSE @[o]]]
(* Mutant: over one other stack, they come back as they were. *)
ReverseTwice(s, n) ==
    LET linked[i \in 0..n] == IF i = 0 THEN TakenOff(s, n) ELSE Link(linked[i - 1], Nth(s, n + 1 - i))
    IN IF n <= 1 THEN s ELSE linked[n]
ReverseTop(s, n) ==
    LET linked[i \in 0..n] == IF i = 0 THEN TakenOff(s, n) ELSE Link(linked[i - 1], Nth(s, i))
    IN IF n <= 1 THEN s ELSE linked[n]
-----------------------------------------------------------------------------
(* What there is to know of the stack whatever blocks its objects lie in.  *)
Shape(s) ==
    LET order == Downwards(s)
        PlaceOf(o) == IF o = 0 THEN 0 ELSE CHOOSE i \in 1..s.size : order[i] = o
    IN <<PlaceOf(s.bottom),
         [i \in 1..s.size |-> <<s.objs[order[i]].val, PlaceOf(s.objs[order[i]].next)>>]>>
=============================================================================
