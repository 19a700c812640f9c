------------------------- MODULE CountingSemaphore -------------------------
(***************************************************************************)
(* What a semaphore of the virtual machine promises to the processes that  *)
(* use it, VM threads and host threads alike: a unit is taken only when    *)
(* there is one, a process that finds none waits, and while there are both *)
(* units and waiting processes, some waiting process takes one.            *)
(* Semaphore.tla is the detailed specification that is compared with it.   *)
(***************************************************************************)
EXTENDS Integers

CONSTANTS Processes,   (* every VM thread and host thread *)
          Initial      (* the value the semaphore is made with *)

VARIABLES units,       (* units left; negative if made negative *)
          waiting      (* processes inside a P that found no unit *)

absVars == <<units, waiting>>

Init == units = Initial /\ waiting = {}

Take(p) ==
    /\ units > 0
    /\ units' = units - 1
    /\ waiting' = waiting \ {p}

Wait(p) ==
    /\ units <= 0
    /\ waiting' = waiting \union {p}
    /\ UNCHANGED units

Give ==
    /\ units' = units + 1
    /\ UNCHANGED waiting

Next == Give \/ \E p \in Processes : Take(p) \/ Wait(p)

(* Any waiting process: the promise is to the group, an individual process *)
(* may be overtaken forever.                                               *)
TakeByWaiting == \E p \in waiting : Take(p)

Spec == Init /\ [][Next]_absVars /\ WF_absVars(TakeByWaiting)
=============================================================================
