------------------------------ MODULE Allocator ------------------------------
(***************************************************************************)
(* What the memory of a region promises to those who ask for it: a block   *)
(* that nobody holds, from the memory there is, until it is given back.    *)
(* Requests may be refused.                                                *)
(***************************************************************************)
CONSTANTS Region, Blocks

VARIABLES
    held,     (* per region: the blocks that are given out *)
    stock     (* per region: the blocks there are *)

Init == held = [r \in Region |-> {}] /\ stock \in [Region -> SUBSET Blocks]

(* A request is answered with a block, after the stock has grown perhaps. *)
Give(r) ==
    /\ stock' = [stock EXCEPT ![r] = stock'[r]]
    /\ stock[r] \subseteq stock'[r]
    /\ \E b \in stock'[r] \ held[r] : held' = [held EXCEPT ![r] = @ \union {b}]

TakeBack(r) ==
    \E b \in held[r] : held' = [held EXCEPT ![r] = @ \ {b}] /\ UNCHANGED stock

Grow ==
    /\ \A r \in Region : stock[r] \subseteq stock'[r]
    /\ stock' \in [Region -> SUBSET Blocks]
    /\ UNCHANGED held

Next == Grow \/ \E r \in Region : Give(r) \/ TakeBack(r)

Spec == Init /\ [][Next]_<<held, stock>>
=============================================================================
