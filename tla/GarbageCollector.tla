-------------------------- MODULE GarbageCollector --------------------------
(***************************************************************************)
(* The mark-and-sweep collector (gc/gc.c, gc/vm_gc.c) and the programs     *)
(* whose objects it collects.  Objects of reference types are registered   *)
(* in the object table when they are made; a collection clears the marks,  *)
(* marks from the roots through the internal markers, then walks the table *)
(* and calls the internal collector of every unmarked item, which says     *)
(* through confirm whether the item leaves the table.  Instances of a      *)
(* class with a destructor (vm/vm_object_class.c) are not freed at first:  *)
(* their collector starts a thread for the destructor and postpones.       *)
(*                                                                         *)
(* A collection runs with the global lock held, between two instructions:  *)
(* its steps are taken apart here, and no program step comes between them. *)
(* New objects only ever enter the first list of the table (minor          *)
(* collections, which would move them, are called from nowhere).  The list *)
(* is kept as the set of its items; the sweep may visit them in any order. *)
(***************************************************************************)
CONSTANTS
    Objects,       (* every object a program may make, each made once *)
    Finalizable,   (* those of a class with a destructor *)
    Programs       (* bound: the sets of objects one program makes *)

ASSUME ObjectsAssumption ==
    /\ Finalizable \subseteq Objects
    /\ Programs \subseteq SUBSET Objects

VARIABLES
    memory,     (* per object: unborn, allocated or freed *)
    table,      (* items of obj_tbl->eden *)
    refs,       (* per object: the objects its marker visits *)
    roots,      (* objects referenced from variables, stacks, messages, events *)
    this,       (* instances held by the variable 'this' of a destructor's thread *)
    life,       (* per object: destructing and destructed of a class instance *)
    phase,      (* run, mark or sweep *)
    marked,     (* objects with mark = 1 *)
    todo,       (* items the sweep has not come to yet *)
    confirm     (* the local variable of the sweep, unset at its start *)

mutVars == <<refs, roots>>
gcVars == <<phase, marked, todo, confirm>>
heapVars == <<memory, table, mutVars, this, life, gcVars>>

HeapInit ==
    /\ memory = [o \in Objects |-> "unborn"]
    /\ table = {}
    /\ refs = [o \in Objects |-> {}]
    /\ roots = {}
    /\ this = {}
    /\ life = [o \in Objects |-> "normal"]
    /\ phase = "run"
    /\ marked = {}
    /\ todo = {}
    /\ confirm = "unset"

Allocated == {o \in Objects : memory[o] = "allocated"}
Made == {o \in Objects : memory[o] # "unborn"}

-----------------------------------------------------------------------------
(* Programs.                                                               *)

(* Making an object: gc_reference_register appends it to the table, the    *)
(* reference to it is on a computing stack.                                *)
New(o) ==
    /\ phase = "run" /\ memory[o] = "unborn"
    /\ \E p \in Programs : Made \union {o} \subseteq p
    /\ memory' = [memory EXCEPT ![o] = "allocated"]
    /\ table' = table \union {o}
    /\ roots' = roots \union {o}
    /\ UNCHANGED <<refs, this, life, gcVars>>

(* A program reads a property or element b of an object a it holds.  A     *)
(* destructor reads the properties of its instance.                        *)
Load(a, b) ==
    /\ phase = "run" /\ a \in roots \union this /\ b \in refs[a]
    /\ roots' = roots \union {b}
    /\ UNCHANGED <<memory, table, refs, this, life, gcVars>>

Store(a, b) ==
    /\ phase = "run" /\ a \in roots \union this /\ b \in roots
    /\ refs' = [refs EXCEPT ![a] = @ \union {b}]
    /\ UNCHANGED <<memory, table, roots, this, life, gcVars>>

Erase(a, b) ==
    /\ phase = "run" /\ a \in roots \union this /\ b \in refs[a]
    /\ refs' = [refs EXCEPT ![a] = @ \ {b}]
    /\ UNCHANGED <<memory, table, roots, this, life, gcVars>>

Drop(o) ==
    /\ phase = "run" /\ o \in roots
    /\ roots' = roots \ {o}
    /\ UNCHANGED <<memory, table, refs, this, life, gcVars>>

(* CLSDTOR (virtual_machine_object_destructor_confirm) by the destructor,  *)
(* or by any code that holds the instance.                                 *)
Confirm(o) ==
    /\ phase = "run" /\ o \in (roots \union this) \intersect Finalizable
    /\ life' = [life EXCEPT ![o] = "destructed"]
    /\ UNCHANGED <<memory, table, mutVars, this, gcVars>>

(* The thread of a destructor ends, after CLSDTOR or without it. *)
EndDestructor(o) ==
    /\ phase = "run" /\ o \in this
    /\ this' = this \ {o}
    /\ UNCHANGED <<memory, table, mutVars, life, gcVars>>

Program ==
    \/ \E o \in Objects : New(o) \/ Drop(o) \/ Confirm(o) \/ EndDestructor(o)
    \/ \E a, b \in Objects : Load(a, b) \/ Store(a, b) \/ Erase(a, b)

-----------------------------------------------------------------------------
(* virtual_machine_garbage_collect.                                        *)

(* Mutant: the marks of the last collection are not cleared. *)
BeginKeepsMarks ==
    /\ phase = "run"
    /\ phase' = "mark"
    /\ marked' = marked \union roots
    /\ UNCHANGED <<memory, table, mutVars, this, life, todo, confirm>>

(* Marks are cleared and the roots are marked. *)
BeginCollection ==
    /\ phase = "run"
    /\ phase' = "mark"
    /\ marked' = roots
    /\ UNCHANGED <<memory, table, mutVars, this, life, todo, confirm>>

(* A marked object's internal marker marks what the object refers to. *)
Mark(a, b) ==
    /\ phase = "mark" /\ a \in marked /\ b \in refs[a] \ marked
    /\ marked' = marked \union {b}
    /\ UNCHANGED <<memory, table, mutVars, this, life, phase, todo, confirm>>

(* Mutant: the sweep begins although there is still something to mark. *)
BeginSweepEarly ==
    /\ phase = "mark"
    /\ phase' = "sweep"
    /\ todo' = table
    /\ confirm' = "unset"
    /\ UNCHANGED <<memory, table, mutVars, this, life, marked>>

BeginSweep ==
    /\ phase = "mark"
    /\ \A a \in marked : refs[a] \subseteq marked
    /\ phase' = "sweep"
    /\ todo' = table
    /\ confirm' = "unset"
    /\ UNCHANGED <<memory, table, mutVars, this, life, marked>>

(* The sweep comes to item o. *)
Visit(o) == phase = "sweep" /\ o \in todo /\ todo' = todo \ {o}

SweepMarked(o) ==
    /\ Visit(o) /\ o \in marked
    /\ UNCHANGED <<memory, table, mutVars, this, life, phase, marked, confirm>>

(* An object without a destructor, or whose destructor has run, is freed. *)
SweepFree(o) ==
    /\ Visit(o) /\ o \notin marked
    /\ o \notin Finalizable \/ life[o] = "destructed"
    /\ memory' = [memory EXCEPT ![o] = "freed"]
    /\ table' = table \ {o}
    /\ confirm' = "CONFIRM"
    /\ UNCHANGED <<mutVars, this, life, phase, marked>>

(* Mutant: an instance that is unmarked again gets another thread. *)
SweepDestructAgain(o) ==
    /\ Visit(o) /\ o \notin marked
    /\ o \in Finalizable /\ life[o] # "destructed"
    /\ life' = [life EXCEPT ![o] = "destructing"]
    /\ this' = this \union {o}
    /\ confirm' = "POSTPOND"
    /\ UNCHANGED <<memory, table, mutVars, phase, marked>>

(* The first time a collection finds the instance unmarked, a thread is    *)
(* started for its destructor.  virtual_machine_marks_thread marks nothing *)
(* of the instance: the new 'this' object has no object_table_item_ptr.    *)
SweepDestruct(o) ==
    /\ Visit(o) /\ o \notin marked
    /\ o \in Finalizable /\ life[o] = "normal"
    /\ life' = [life EXCEPT ![o] = "destructing"]
    /\ this' = this \union {o}
    /\ confirm' = "POSTPOND"
    /\ UNCHANGED <<memory, table, mutVars, phase, marked>>

(* While the destructor runs the collector returns without setting         *)
(* confirm: it holds the answer of an earlier item of this sweep, or is    *)
(* uninitialised.                                                          *)
SweepDestructing(o) ==
    /\ Visit(o) /\ o \notin marked
    /\ o \in Finalizable /\ life[o] = "destructing"
    /\ \/ confirm # "POSTPOND" /\ table' = table \ {o}
       \/ confirm # "CONFIRM" /\ UNCHANGED table
    /\ UNCHANGED <<memory, mutVars, this, life, phase, marked, confirm>>

EndSweep ==
    /\ phase = "sweep" /\ todo = {}
    /\ phase' = "run"
    /\ UNCHANGED <<memory, table, mutVars, this, life, marked, todo, confirm>>

Collection ==
    \/ BeginCollection \/ BeginSweep \/ EndSweep
    \/ \E a, b \in Objects : Mark(a, b)
    \/ \E o \in Objects :
          SweepMarked(o) \/ SweepFree(o) \/ SweepDestruct(o) \/ SweepDestructing(o)

HeapNext == Program \/ Collection

HeapSpec == HeapInit /\ [][HeapNext]_heapVars

-----------------------------------------------------------------------------
HeapTypeOK ==
    /\ memory \in [Objects -> {"unborn", "allocated", "freed"}]
    /\ table \subseteq Objects
    /\ refs \in [Objects -> SUBSET Objects]
    /\ roots \subseteq Objects
    /\ this \subseteq Objects
    /\ life \in [Objects -> {"normal", "destructing", "destructed"}]
    /\ phase \in {"run", "mark", "sweep"}
    /\ marked \subseteq Objects
    /\ todo \subseteq Objects
    /\ confirm \in {"unset", "CONFIRM", "POSTPOND"}

(* The program has made no instance of a class with a destructor. *)
NoInstances == Finalizable \intersect Made = {}

(* Whatever a program can get hold of is allocated, for programs without   *)
(* destructors: the collector never frees an object that is in use.        *)
NoDanglingReference ==
    (NoInstances /\ phase = "run") =>
        /\ roots \subseteq Allocated
        /\ \A o \in Allocated : refs[o] \subseteq Allocated

(* The smallest set that holds the roots and what its members refer to. *)
Reachable ==
    {o \in Objects : \A s \in SUBSET Objects :
        (roots \subseteq s /\ \A a \in s : refs[a] \subseteq s) => o \in s}

(* A collection is exact, for programs without destructors: when it ends,  *)
(* an object is allocated if and only if it is reachable, cyclic garbage   *)
(* included.                                                               *)
CollectionIsExact ==
    [][(NoInstances /\ phase = "sweep" /\ phase' = "run") =>
        \A o \in Objects :
            memory[o] # "unborn" => (memory[o] = "allocated" <=> o \in Reachable)]_heapVars

(* A destructor that has not confirmed runs on an instance that is still   *)
(* there, however many collections find the instance unmarked meanwhile.   *)
DestructorKeepsInstance ==
    \A o \in this : life[o] = "destructing" => o \in Allocated

(* However many collections find the instance unmarked, while the thread   *)
(* of its destructor runs and after it, it gets one such thread.           *)
DestructorOnce ==
    \A o \in Finalizable : [](o \in this => [](o \notin this => [](o \notin this)))

(* Marking never visits an item that has left the table: every object that *)
(* a marker may reach is still listed (programs without destructors).      *)
AllocatedIsListed == NoInstances => table = Allocated

(* "Because the new running stack frame (Including the new thread) been    *)
(* created, but not been marked, in the finalizing process, then we just   *)
(* mark them here" (vm_object_class.c:177): what the destructor's 'this'   *)
(* refers to outlives the collection that started the destructor.          *)
DestructorFindsItsProperties ==
    phase = "run" => \A o \in this : refs[o] \subseteq Allocated

(* The heap as the program finds it between collections: nothing in use is *)
(* freed, the table lists what is allocated, and a destructor that runs    *)
(* has its instance.                                                       *)
HeapConsistent == HeapTypeOK /\ NoDanglingReference /\ AllocatedIsListed /\ DestructorKeepsInstance
=============================================================================
