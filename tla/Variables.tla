----------------------------- MODULE Variables -----------------------------
(***************************************************************************)
(* Variables: the linked lists they are kept in (vm/vm_infrastructure.c)   *)
(* and the instructions that assign to them (POP, POPC, POPCX, POPCL, POPM *)
(* and POPG in virtual_machine_thread_step, vm/vm_cpu.c).  One running     *)
(* stack frame is on the stack, with an environment of two frames, in one  *)
(* module; calls, which change that, are not modelled.                     *)
(*                                                                         *)
(* The lists are linked through nodes that are allocated and freed, so a   *)
(* pointer may be left behind.  The code never checks for that: when it    *)
(* reads a freed node the outcome is undefined, and the status is fault.   *)
(***************************************************************************)
EXTENDS Integers, FiniteSetsExt, Sequences

CONSTANTS
    Nodes,        (* memory for variables; a bound on how many there are *)
    Names,        (* identifiers *)
    Values,       (* values of literals *)
    Operands,     (* what programs assign with POP, POPC and POPCX *)
    LateOperands, (* what they assign with POPCL, POPM and POPG, which *)
                  (* remove before they solve                          *)
    NULL,         (* the null pointer *)
    Freed,        (* a search that came to a freed node *)
    Undefined     (* the value of a name that has none *)

ASSUME VariablesAssumption ==
    /\ Operands \union LateOperands \subseteq Names \union Values
    /\ Names \intersect Values = {}
    /\ Undefined \notin Names \union Values /\ Freed \notin Values \union {Undefined}
    /\ NULL \notin Nodes /\ Freed \notin Nodes /\ NULL # Freed
    /\ IsFiniteSet(Nodes)

VARIABLES
    heap,         (* the lists and the nodes *)
    status,       (* running, failed, ended or fault *)
    ran           (* history: the last instruction, its name and its operand *)

vars == <<heap, status, ran>>

Environment == <<"head", "outer">>
Order == <<"frame", "head", "outer", "module", "global">>
Lists == {Order[i] : i \in DOMAIN Order}

Free == [name |-> Undefined, value |-> Undefined]

Empty ==
    [begin |-> [l \in Lists |-> NULL], end  |-> [l \in Lists |-> NULL],
     size  |-> [l \in Lists |-> 0],    next |-> [v \in Nodes |-> NULL],
     prev  |-> [v \in Nodes |-> NULL], var  |-> [v \in Nodes |-> Free]]

Live(h) == {v \in Nodes : h.var[v] # Free}

-----------------------------------------------------------------------------
(* The pointers a walk through a list meets, from begin on. *)
Walk(h, l) ==
    LET at[k \in 0 .. Cardinality(Nodes)] ==
            IF k = 0 THEN h.begin[l]
            ELSE LET v == at[k - 1]
                 IN  IF v # NULL /\ h.var[v] # Free THEN h.next[v] ELSE NULL
    IN  at

(* virtual_machine_variable_list_lookup: NULL when the name is not there. *)
Lookup(h, l, n) ==
    LET from[v \in Nodes \union {NULL}] ==
            IF v = NULL THEN NULL
            ELSE CASE h.var[v] = Free    -> Freed
                   [] h.var[v].name = n  -> v
                   [] OTHER              -> from[h.next[v]]
    IN  from[h.begin[l]]

(* The first list of a path whose lookup does not say NULL; 0 for none. *)
FirstIn(h, path, n) ==
    LET found == {i \in DOMAIN path : Lookup(h, path[i], n) # NULL}
    IN  IF found = {} THEN 0 ELSE Min(found)

(* virtual_machine_variable_solve. *)
Solve(h, operand) ==
    IF operand \in Values
    THEN operand
    ELSE LET i == FirstIn(h, Order, operand)
         IN  IF i = 0 THEN Undefined
             ELSE LET v == Lookup(h, Order[i], operand)
                  IN  IF v = Freed THEN Freed ELSE h.var[v].value

(* Mutant: the new variable is linked behind the first one. *)
AppendAtBegin(h, l, v, n, x) ==
    LET linked == [h EXCEPT !.var[v] = [name |-> n, value |-> x], !.size[l] = @ + 1]
    IN  IF h.begin[l] = NULL
        THEN [linked EXCEPT !.begin[l] = v, !.end[l] = v]
        ELSE [linked EXCEPT !.next[h.begin[l]] = v, !.prev[v] = h.begin[l], !.end[l] = v]

(* virtual_machine_variable_list_append. *)
ListAppend(h, l, v, n, x) ==
    LET linked == [h EXCEPT !.var[v] = [name |-> n, value |-> x], !.size[l] = @ + 1]
    IN  IF h.begin[l] = NULL
        THEN [linked EXCEPT !.begin[l] = v, !.end[l] = v]
        ELSE [linked EXCEPT !.next[h.end[l]] = v, !.prev[v] = h.end[l], !.end[l] = v]

(* The program starts in a function whose environment may hold a variable  *)
(* of the function around it.                                              *)
Init ==
    /\ heap \in {Empty} \union
          {ListAppend(Empty, "outer", v, n, x) : v \in Nodes, n \in Names, x \in Values}
    /\ status = "running"
    /\ ran = [op |-> "none", name |-> Undefined, operand |-> Undefined]

(* virtual_machine_variable_destroy. *)
Destroy(h, v) == [h EXCEPT !.var[v] = Free, !.next[v] = NULL, !.prev[v] = NULL]

(* Mutant: begin is not moved on. *)
ListRemoveKeepsBegin(h, l, v) ==
    LET d == [Destroy(h, v) EXCEPT !.size[l] = @ - 1]
    IN  IF h.size[l] = 1 THEN [d EXCEPT !.begin[l] = NULL, !.end[l] = NULL]
        ELSE CASE v = h.begin[l] -> d
               [] v = h.end[l]   -> [d EXCEPT !.end[l] = h.prev[v]]
               [] OTHER          -> [d EXCEPT !.next[h.prev[v]] = h.next[v],
                                              !.prev[h.next[v]] = h.prev[v]]

(* virtual_machine_variable_list_remove, of a variable that was looked up  *)
(* in the list.  The node before the last one goes on pointing to it, and  *)
(* the node after the first one too.                                       *)
ListRemove(h, l, v) ==
    LET d == [Destroy(h, v) EXCEPT !.size[l] = @ - 1]
    IN  IF h.size[l] = 1 THEN [d EXCEPT !.begin[l] = NULL, !.end[l] = NULL]
        ELSE CASE v = h.begin[l] -> [d EXCEPT !.begin[l] = h.next[v]]
               [] v = h.end[l]   -> [d EXCEPT !.end[l] = h.prev[v]]
               [] OTHER          -> [d EXCEPT !.next[h.prev[v]] = h.next[v],
                                              !.prev[h.next[v]] = h.prev[v]]

(* The variable is removed from the list if it is there.  An instruction   *)
(* starts with whole lists (ListsAreWhole), so this walk meets no freed    *)
(* node; the walks of Solve after a removal, and of End, may.              *)
Without(h, l, n) ==
    LET v == Lookup(h, l, n) IN IF v \in Nodes THEN ListRemove(h, l, v) ELSE h

-----------------------------------------------------------------------------
Runs(op, n, operand) ==
    /\ status = "running"
    /\ ran' = [op |-> op, name |-> n, operand |-> operand]

Stop(s) == status' = s

(* virtual_machine_variable_list_append_with_configure.  A heap without    *)
(* room, where the code fails, is the bound of the model.                  *)
Create(h, l, n, x) ==
    /\ \E v \in Nodes \ Live(h) : heap' = ListAppend(h, l, v, n, x)
    /\ UNCHANGED status

(* The instructions that solve their operand before they remove. *)
SolveAndReplace(l, n, operand) ==
    LET x == Solve(heap, operand)
    IN  CASE x = Freed     -> Stop("fault") /\ UNCHANGED heap
          [] x = Undefined -> Stop("failed") /\ UNCHANGED heap
          [] OTHER         -> Create(Without(heap, l, n), l, n, x)

(* The instructions that remove before they solve their operand. *)
RemoveAndSolve(l, n, operand) ==
    LET h == Without(heap, l, n)
        x == Solve(h, operand)
    IN  CASE x = Freed     -> Stop("fault") /\ heap' = h
          [] x = Undefined -> Stop("failed") /\ heap' = h
          [] OTHER         -> Create(h, l, n, x)

(* Mutant: removes first, as POPM does. *)
PopRemovesFirst(n, operand) == Runs("POP", n, operand) /\ RemoveAndSolve("frame", n, operand)

Pop(n, operand) == Runs("POP", n, operand) /\ SolveAndReplace("frame", n, operand)

(* POPC replaces the variable in the frame of the environment that has it, *)
(* or makes one in the current frame.                                      *)
PopC(n, operand) ==
    LET i == FirstIn(heap, Environment, n)
    IN  /\ Runs("POPC", n, operand)
        /\ SolveAndReplace(IF i = 0 THEN "head" ELSE Environment[i], n, operand)

(* POPCX is an error when no frame of the environment has the name. *)
PopCX(n, operand) ==
    LET i == FirstIn(heap, Environment, n)
    IN  /\ Runs("POPCX", n, operand)
        /\ IF i = 0
           THEN Stop("failed") /\ UNCHANGED heap
           ELSE SolveAndReplace(Environment[i], n, operand)

PopCL(n, operand) == Runs("POPCL", n, operand) /\ RemoveAndSolve("head", n, operand)
PopM(n, operand) == Runs("POPM", n, operand) /\ RemoveAndSolve("module", n, operand)
PopG(n, operand) == Runs("POPG", n, operand) /\ RemoveAndSolve("global", n, operand)

(* The end of the program: virtual_machine_variable_list_destroy walks     *)
(* every list and frees what it meets.                                     *)
End ==
    /\ status \in {"running", "failed"}
    /\ heap' = Empty
    /\ Stop(IF \E l \in Lists : \E k \in DOMAIN Walk(heap, l) :
                   Walk(heap, l)[k] \in Nodes \ Live(heap)
            THEN "fault" ELSE "ended")
    /\ UNCHANGED ran

Next ==
    \/ End
    \/ \E n \in Names, o \in Operands : Pop(n, o) \/ PopC(n, o) \/ PopCX(n, o)
    \/ \E n \in Names, o \in LateOperands : PopCL(n, o) \/ PopM(n, o) \/ PopG(n, o)

Spec == Init /\ [][Next]_vars
-----------------------------------------------------------------------------
Pointer == Nodes \union {NULL}
Pops == {"POP", "POPC", "POPCX", "POPCL", "POPM", "POPG"}

TypeOK ==
    /\ heap.begin \in [Lists -> Pointer] /\ heap.end \in [Lists -> Pointer]
    /\ heap.size \in [Lists -> 0 .. Cardinality(Nodes)]
    /\ heap.next \in [Nodes -> Pointer] /\ heap.prev \in [Nodes -> Pointer]
    /\ heap.var \in [Nodes -> [name : Names, value : Values] \union {Free}]
    /\ status \in {"running", "failed", "ended", "fault"}
    /\ ran \in [op : Pops \union {"none"}, name : Names \union {Undefined},
                operand : Names \union Values \union {Undefined}]

(* No instruction, and no clean-up at the end, reads a variable that has   *)
(* been freed: the pointers that removals leave behind are overwritten     *)
(* before anything follows them.                                           *)
NoFreedVariableRead == status # "fault"

(* Between instructions a list has as many variables as its size says, all *)
(* live and of different names, the last one is end, and no variable is in *)
(* two lists or in none.                                                   *)
ListsAreWhole ==
    status = "running" =>
        LET Met(l) == {Walk(heap, l)[k] : k \in DOMAIN Walk(heap, l)} \ {NULL}
        IN  /\ \A l \in Lists :
                /\ Cardinality(Met(l)) = heap.size[l]
                /\ Cardinality({heap.var[v].name : v \in Met(l)}) = heap.size[l]
                /\ IF heap.size[l] = 0 THEN heap.end[l] = NULL
                   ELSE heap.end[l] \in Met(l) /\ heap.next[heap.end[l]] = NULL
            /\ UNION {Met(l) : l \in Lists} = Live(heap)
            /\ Cardinality(Live(heap)) =
                  heap.size["frame"] + heap.size["head"] + heap.size["outer"]
                  + heap.size["module"] + heap.size["global"]

(* A name of a scope has the value that was last assigned to it. *)
Value(l, n) ==
    LET v == Lookup(heap, l, n) IN IF v \in Nodes THEN heap.var[v].value ELSE Undefined

Promise == INSTANCE Scopes WITH
    env <- [l \in Lists |-> [n \in Names |-> Value(l, n)]],
    state <- status

(* The lists, with their removals and appends, are maps from names to      *)
(* values.  Every instruction gives the name after it, in the scope that   *)
(* it assigns to, the value that its operand has when it starts, and       *)
(* leaves all other names of all scopes alone; or it fails, when it must.  *)
ImplementsScopes == Promise!Spec

(* Between instructions, pointers, sizes and variables of the five lists   *)
(* agree.                                                                  *)
Consistent == TypeOK /\ ListsAreWhole
=============================================================================
