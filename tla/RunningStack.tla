---------------------------- MODULE RunningStack ----------------------------
(***************************************************************************)
(* The running stack of a thread (vm/vm_infrastructure.c): frames linked   *)
(* both ways from bottom to top, each with its own list of suspended       *)
(* frames, the generators that yielded to it.  A stack s is a record; the  *)
(* domain of s.frame is the set of frames allocated, so that a pointer     *)
(* outside it leads to freed memory.  Addresses in the text are pairs of a *)
(* function and an offset.  What is left out of a frame: its module, its   *)
(* variables and prepared arguments, and the flag CALLC sets.              *)
(***************************************************************************)
EXTENDS Naturals, SequencesExt

Nil == 0
Empty == [frame |-> <<>>, bottom |-> Nil, top |-> Nil, size |-> 0]
Top(s) == s.frame[s.top]
Caller(s) == Top(s).prev

(* What is met along next from frame i on; the walk ends at a pointer that *)
(* is null or leads to freed memory.                                       *)
Walk(s, i) ==
    LET reach[n \in 0 .. Cardinality(DOMAIN s.frame)] ==
          IF n = 0 THEN <<i>>
          ELSE LET p == Last(reach[n - 1])
               IN IF p \in DOMAIN s.frame THEN Append(reach[n - 1], s.frame[p].next)
                  ELSE reach[n - 1]
    IN Front(reach[Cardinality(DOMAIN s.frame)])
Frames(s) == Walk(s, s.bottom)
Generators(s, i) == Walk(s, s.frame[i].gBegin)

(* pc_start is where the frame was entered, which a frame that was         *)
(* restored in the middle of its function has forgotten.                   *)
New(address, args, trapPc, trapOn, env) ==
    [start |-> address, pc |-> address, args |-> args, trapPc |-> trapPc, trapOn |-> trapOn,
     env |-> env, stack |-> <<>>, gBegin |-> Nil, gEnd |-> Nil, gSize |-> 0,
     next |-> Nil, prev |-> Nil]
Unused(s) == CHOOSE i \in 1 .. Cardinality(DOMAIN s.frame) + 1 :
                i \notin DOMAIN s.frame /\ 1 .. i - 1 \subseteq DOMAIN s.frame

(* A frame takes the frames suspended in it along, and those in them.      *)
Owned(s, i) ==
    LET own[n \in 0 .. Cardinality(DOMAIN s.frame)] ==
          IF n = 0 THEN {i}
          ELSE own[n - 1] \cup UNION {ToSet(Generators(s, j)) : j \in own[n - 1]}
    IN own[Cardinality(DOMAIN s.frame)]
Destroy(s, i) ==
    LET gone == Owned(s, i)
    IN [s EXCEPT !.frame = [j \in DOMAIN @ \ gone |-> @[j]]]

(* The frame of index i, allocated before, goes on top.                    *)
Push(s, i) ==
    IF s.bottom = Nil THEN [s EXCEPT !.bottom = i, !.top = i, !.size = @ + 1]
    ELSE [s EXCEPT !.frame[s.top].next = i, !.frame[i].prev = s.top, !.top = i, !.size = @ + 1]

PushNew(s, f) ==
    LET i == Unused(s)
    IN Push([s EXCEPT !.frame = [j \in DOMAIN @ \cup {i} |-> IF j = i THEN f ELSE @[j]]], i)

Pop(s) ==
    LET below == Caller(s)
        popped == [Destroy(s, s.top) EXCEPT !.top = below, !.size = @ - 1,
                                            !.bottom = IF s.size = 1 THEN Nil ELSE @]
    IN IF below = Nil THEN popped ELSE [popped EXCEPT !.frame[below].next = Nil]

(* A tail call: the frame under the top goes, the top takes its place.     *)
(* It is only called with two frames or more.                              *)
LiftMerge(s) ==
    LET gone == Caller(s)
        below == s.frame[gone].prev
        merged == [Destroy(s, gone) EXCEPT !.frame[s.top].prev = below, !.size = @ - 1]
    IN IF s.size = 2 THEN [merged EXCEPT !.bottom = s.top]
       ELSE [merged EXCEPT !.frame[below].next = s.top]
-----------------------------------------------------------------------------
(* Generators.                                                             *)
AppendGenerator(s, owner, i) ==
    LET f == s.frame[owner]
    IN IF f.gBegin = Nil
       THEN [s EXCEPT !.frame[owner].gBegin = i, !.frame[owner].gEnd = i,
                      !.frame[owner].gSize = @ + 1]
       ELSE [s EXCEPT !.frame[f.gEnd].next = i, !.frame[i].prev = f.gEnd,
                      !.frame[owner].gEnd = i, !.frame[owner].gSize = @ + 1]

(* YIELD: the top moves to the generators of its caller.                   *)
Suspend(s) ==
    LET i == s.top
        owner == Caller(s)
        moved == AppendGenerator([s EXCEPT !.top = owner, !.frame[i].next = Nil,
                                    !.frame[i].prev = Nil],
                                 owner, i)
    IN [moved EXCEPT !.size = @ - 1, !.frame[owner].next = Nil]

(* Mutant: looked up by where it is to go on. *)
GetGeneratorByPc(s, address) ==
    LET order == Generators(s, s.top)
        found == {k \in DOMAIN order : s.frame[order[k]].pc = address}
    IN IF found = {} THEN Nil ELSE order[Min(found)]

(* The first frame suspended in the top that was entered at this address.  *)
GetGenerator(s, address) ==
    LET order == Generators(s, s.top)
        found == {k \in DOMAIN order : s.frame[order[k]].start = address}
    IN IF found = {} THEN Nil ELSE order[Min(found)]

(* Mutant: the one behind keeps pointing at the frame that left. *)
PickGeneratorOneWay(s, i, args) ==
    LET f == s.frame[i]
        before == IF f.prev # Nil THEN [s EXCEPT !.frame[f.prev].next = f.next]
                  ELSE [s EXCEPT !.frame[s.top].gBegin = f.next]
        after == IF f.next # Nil THEN before
                 ELSE [before EXCEPT !.frame[s.top].gEnd = f.prev]
    IN [after EXCEPT !.frame[s.top].gSize = @ - 1,
                     !.frame[i].next = Nil, !.frame[i].prev = Nil, !.frame[i].args = args]

(* It leaves the list, and takes the new number of arguments.              *)
PickGenerator(s, i, args) ==
    LET f == s.frame[i]
        before == IF f.prev # Nil THEN [s EXCEPT !.frame[f.prev].next = f.next]
                  ELSE [s EXCEPT !.frame[s.top].gBegin = f.next]
        after == IF f.next # Nil THEN [before EXCEPT !.frame[f.next].prev = f.prev]
                 ELSE [before EXCEPT !.frame[s.top].gEnd = f.prev]
    IN [after EXCEPT !.frame[s.top].gSize = @ - 1,
                     !.frame[i].next = Nil, !.frame[i].prev = Nil, !.frame[i].args = args]
-----------------------------------------------------------------------------
(* Continuations.  A snapshot is what is kept of each frame, from bottom   *)
(* to top.  Of the computing stack it keeps the height and, since the      *)
(* transport never moves on from the top, as many copies of the top.       *)
Transport(stack) == [i \in 1 .. Len(stack) |-> Last(stack)]
Snapshot(s) ==
    LET order == Frames(s)
    IN [k \in 1 .. Len(order) |->
          LET f == s.frame[order[k]]
          IN [pc |-> f.pc, args |-> f.args, trapPc |-> f.trapPc, trapOn |-> f.trapOn,
              stack |-> Transport(f.stack)]]

(* Only for as many frames as both have.                                   *)
PatchTraps(s, snap) ==
    LET order == Frames(s)
    IN [k \in 1 .. Len(snap) |->
          IF k <= Len(order) THEN [snap[k] EXCEPT !.trapPc = s.frame[order[k]].trapPc]
          ELSE snap[k]]

(* All but the lowest n frames go.  With fewer frames than that the walk   *)
(* to the n-th runs off the stack.                                         *)
Crush(s, n) ==
    LET down[k \in n .. s.size] == IF k = s.size THEN s ELSE Pop(down[k + 1])
    IN down[n]

(* The frames that were kept, n of them, take the computing stack and the  *)
(* pc of the snapshot, where the bottom one keeps its pc when it is the    *)
(* only one; the others are made anew, each with a kernel from envs.       *)
Restore(s, snap, n, envs) ==
    LET order == Frames(s)
        kept == [s EXCEPT !.frame = [i \in DOMAIN s.frame |->
                   IF i \in ToSet(order)
                   THEN LET k == CHOOSE x \in 1 .. Len(order) : order[x] = i
                        IN [s.frame[i] EXCEPT !.stack = snap[k].stack,
                                              !.pc = IF n = 1 THEN @ ELSE snap[k].pc]
                   ELSE s.frame[i]]]
        grown[k \in n .. Len(snap)] ==
          IF k = n THEN kept
          ELSE PushNew(grown[k - 1],
                       New(snap[k].pc, snap[k].args, snap[k].trapPc, snap[k].trapOn, envs[k]))
    IN grown[Len(snap)]

(* The frame that made the continuation may leave through its trap.        *)
SetTrap(s, snap) == [s EXCEPT !.frame[Frames(s)[Len(snap)]].trapOn = TRUE]
=============================================================================
