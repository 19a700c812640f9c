----------------------------- MODULE MemoryProofs -----------------------------
(***************************************************************************)
(* Theorems about memory: the collector of GarbageCollector.tla, for any   *)
(* set of objects, finite or not, and below it the pools of                *)
(* ResourcePools.tla: whatever is requested and given back, wherever       *)
(* growth fails, a block has one place and the counters of every pool say  *)
(* how many are where; a collection that a pool asked for leaves it with   *)
(* room; and every source keeps the promise of Allocator.tla.              *)
(***************************************************************************)
EXTENDS GarbageCollector, ResourcePools, SequenceTheorems, FiniteSetTheorems,
        TLAPS

(* Type correctness holds at the start. *)
LEMMA TypeInit == HeapInit => HeapTypeOK
  BY DEF HeapInit, HeapTypeOK

(* Every step of the program and of the collector keeps type correctness. *)
LEMMA TypeStep == HeapTypeOK /\ [HeapNext]_heapVars => HeapTypeOK'
<1> SUFFICES ASSUME HeapTypeOK, [HeapNext]_heapVars PROVE HeapTypeOK'
  OBVIOUS
<1> USE DEF HeapTypeOK, gcVars, mutVars
<1>1. ASSUME NEW o \in Objects, New(o) PROVE HeapTypeOK'
  BY <1>1 DEF New
<1>2. ASSUME NEW o \in Objects, Drop(o) PROVE HeapTypeOK'
  BY <1>2 DEF Drop
<1>3. ASSUME NEW o \in Objects, Confirm(o) PROVE HeapTypeOK'
  BY <1>3 DEF Confirm
<1>4. ASSUME NEW o \in Objects, EndDestructor(o) PROVE HeapTypeOK'
  BY <1>4 DEF EndDestructor
<1>5. ASSUME NEW a \in Objects, NEW b \in Objects, Load(a, b) PROVE HeapTypeOK'
  BY <1>5 DEF Load
<1>6. ASSUME NEW a \in Objects, NEW b \in Objects, Store(a, b) PROVE HeapTypeOK'
  BY <1>6 DEF Store
<1>7. ASSUME NEW a \in Objects, NEW b \in Objects, Erase(a, b) PROVE HeapTypeOK'
  BY <1>7 DEF Erase
<1>8. CASE BeginCollection
  BY <1>8 DEF BeginCollection
<1>9. CASE BeginSweep
  BY <1>9 DEF BeginSweep
<1>10. CASE EndSweep
  BY <1>10 DEF EndSweep
<1>11. ASSUME NEW a \in Objects, NEW b \in Objects, Mark(a, b) PROVE HeapTypeOK'
  BY <1>11 DEF Mark
<1>12. ASSUME NEW o \in Objects, SweepMarked(o) PROVE HeapTypeOK'
  BY <1>12 DEF SweepMarked, Visit
<1>13. ASSUME NEW o \in Objects, SweepFree(o) PROVE HeapTypeOK'
  BY <1>13 DEF SweepFree, Visit
<1>14. ASSUME NEW o \in Objects, SweepDestruct(o) PROVE HeapTypeOK'
  BY <1>14 DEF SweepDestruct, Visit
<1>15. ASSUME NEW o \in Objects, SweepDestructing(o) PROVE HeapTypeOK'
  BY <1>15 DEF SweepDestructing, Visit
<1>16. CASE UNCHANGED heapVars
  BY <1>16 DEF heapVars
<1> QED
  BY <1>1, <1>2, <1>3, <1>4, <1>5, <1>6, <1>7, <1>8, <1>9, <1>10, <1>11, <1>12,
     <1>13, <1>14, <1>15, <1>16
  DEF HeapNext, Program, Collection

(* Every state of the collector has the types of HeapTypeOK. *)
THEOREM TypeCorrect == HeapSpec => []HeapTypeOK
  BY TypeInit, TypeStep, PTL DEF HeapSpec

-----------------------------------------------------------------------------
(* Programs without destructors.  Reachable is the least closed set that   *)
(* holds the roots; during a collection neither roots nor references       *)
(* change, so the marks grow inside one Reachable.                         *)
Closed(s) == \A a \in s : refs[a] \subseteq s

(* Reachable is the least set that holds the roots and is closed. *)
LEMMA ReachableIsLeast ==
    ASSUME HeapTypeOK
    PROVE  /\ roots \subseteq Reachable
           /\ Closed(Reachable)
           /\ \A s \in SUBSET Objects : (roots \subseteq s /\ Closed(s)) => Reachable \subseteq s
<1>1. roots \subseteq Reachable
  BY DEF HeapTypeOK, Reachable
<1>2. ASSUME NEW a \in Reachable, NEW b \in refs[a] PROVE b \in Reachable
  <2>1. a \in Objects /\ b \in Objects
    BY <1>2 DEF HeapTypeOK, Reachable
  <2>2. ASSUME NEW s \in SUBSET Objects, roots \subseteq s,
               \A x \in s : refs[x] \subseteq s
        PROVE  b \in s
    <3>1. a \in s
      BY <2>2 DEF Reachable
    <3> QED BY <3>1, <2>2
  <2> QED BY <2>1, <2>2 DEF Reachable
<1>3. ASSUME NEW s \in SUBSET Objects, roots \subseteq s, Closed(s)
      PROVE  Reachable \subseteq s
  BY <1>3 DEF Reachable, Closed
<1> QED BY <1>1, <1>2, <1>3 DEF Closed

(* The inductive invariant, in parts.  While a program runs, what exists   *)
(* refers to what exists; marks stay inside the reachable objects; a sweep *)
(* begins with all of them marked, and what it has still to free is ahead  *)
(* of it.                                                                  *)
Heap ==
    /\ this = {}
    /\ roots \subseteq Allocated
    /\ table = Allocated
    /\ \A o \in Objects : memory[o] = "unborn" => refs[o] = {}
    /\ phase # "sweep" => Closed(Allocated)

Marks ==
    phase # "run" =>
        /\ roots \subseteq marked
        /\ marked \subseteq Reachable
        /\ marked \subseteq Allocated

Sweep ==
    phase = "sweep" =>
        /\ Closed(marked)
        /\ Allocated \ marked \subseteq todo
        /\ todo \subseteq Allocated

PlainInv == HeapTypeOK /\ (NoInstances => Heap /\ Marks /\ Sweep)

(* A program that has made an instance has made it for good. *)
LEMMA InstancesStay == HeapTypeOK /\ [HeapNext]_heapVars /\ NoInstances' => NoInstances
<1> SUFFICES ASSUME HeapTypeOK, [HeapNext]_heapVars, NEW o \in Objects, memory[o] # "unborn"
             PROVE  memory'[o] # "unborn"
  BY DEF NoInstances, Made
<1> USE DEF HeapTypeOK, gcVars, mutVars
<1>1. CASE Program
  BY <1>1 DEF Program, New, Drop, Confirm, EndDestructor, Load, Store, Erase
<1>2. CASE Collection
  BY <1>2 DEF Collection, BeginCollection, BeginSweep, EndSweep, Mark, SweepMarked,
              SweepFree, SweepDestruct, SweepDestructing
<1>3. CASE UNCHANGED heapVars
  BY <1>3 DEF heapVars
<1> QED BY <1>1, <1>2, <1>3 DEF HeapNext

(* The invariant of a heap without destructors holds at the start. *)
LEMMA PlainInit == HeapInit => PlainInv
<1> SUFFICES ASSUME HeapInit PROVE PlainInv
  OBVIOUS
<1>1. Allocated = {}
  BY DEF HeapInit, Allocated
<1> QED BY <1>1, TypeInit DEF HeapInit, PlainInv, Heap, Marks, Sweep, Closed

(* Every step keeps the invariant of a heap without destructors. *)
LEMMA PlainStep == PlainInv /\ [HeapNext]_heapVars => PlainInv'
<1> SUFFICES ASSUME HeapTypeOK, NoInstances, Heap, Marks, Sweep, [HeapNext]_heapVars
             PROVE  Heap' /\ Marks' /\ Sweep'
  BY TypeStep, InstancesStay DEF PlainInv
<1>0. HeapTypeOK /\ HeapTypeOK'
  BY TypeStep
<1> USE DEF gcVars, mutVars
<1>1. ASSUME phase = "run", phase' = "run", Heap' PROVE Heap' /\ Marks' /\ Sweep'
  BY <1>1 DEF Marks, Sweep
<1>2. ASSUME NEW o \in Objects, New(o) PROVE Heap'
  <2>1. Allocated' = Allocated \union {o} /\ refs[o] = {} /\ phase = "run" /\ phase' = "run"
    BY <1>2, <1>0 DEF New, Allocated, Heap, HeapTypeOK
  <2>2. Closed(Allocated)'
    BY <1>2, <2>1 DEF New, Heap, Closed
  <2> QED BY <1>2, <2>1, <2>2, <1>0 DEF New, Heap, HeapTypeOK
<1>3. ASSUME NEW o \in Objects, Drop(o) PROVE Heap'
  BY <1>3, <1>0 DEF Drop, Heap, Allocated, Closed, HeapTypeOK
<1>4. ASSUME NEW o \in Objects, Confirm(o) \/ EndDestructor(o) PROVE Heap'
  BY <1>4, <1>0 DEF Confirm, EndDestructor, Heap, Allocated, Closed, HeapTypeOK
<1>5. ASSUME NEW a \in Objects, NEW b \in Objects, Load(a, b) PROVE Heap'
  <2>1. b \in Allocated
    BY <1>5 DEF Load, Heap, Closed
  <2> QED BY <1>5, <2>1, <1>0 DEF Load, Heap, Allocated, Closed, HeapTypeOK
<1>6. ASSUME NEW a \in Objects, NEW b \in Objects, Store(a, b) PROVE Heap'
  <2>1. a \in Allocated /\ b \in Allocated /\ Allocated' = Allocated
    BY <1>6 DEF Store, Heap, Allocated
  <2>2. memory[a] # "unborn" /\ phase' = "run"
    BY <1>6, <2>1 DEF Allocated, Store
  <2>3. Closed(Allocated)'
    BY <1>6, <2>1, <1>0 DEF Store, Heap, Closed, HeapTypeOK
  <2>4. \A o \in Objects : memory'[o] = "unborn" => refs'[o] = {}
    BY <1>6, <2>2, <1>0 DEF Store, Heap, HeapTypeOK
  <2> QED BY <1>6, <2>1, <2>2, <2>3, <2>4 DEF Store, Heap
<1>7. ASSUME NEW a \in Objects, NEW b \in Objects, Erase(a, b) PROVE Heap'
  <2>1. Allocated' = Allocated
    BY <1>7 DEF Erase, Allocated
  <2>2. \A o \in Objects : refs'[o] \subseteq refs[o]
    BY <1>7, <1>0 DEF Erase, HeapTypeOK
  <2>3. Closed(Allocated)'
    BY <1>7, <2>1, <2>2 DEF Erase, Heap, Closed, Allocated
  <2> QED BY <1>7, <2>1, <2>2, <2>3 DEF Erase, Heap
<1>8. CASE Program
  <2>1. phase = "run" /\ phase' = "run"
    BY <1>8 DEF Program, New, Drop, Confirm, EndDestructor, Load, Store, Erase
  <2>2. Heap'
    BY <1>8, <1>2, <1>3, <1>4, <1>5, <1>6, <1>7 DEF Program
  <2> QED BY <2>1, <2>2, <1>1
<1>9. ASSUME Collection \/ UNCHANGED heapVars
      PROVE  UNCHANGED <<refs, roots>> /\ Reachable' = Reachable
  <2>1. UNCHANGED <<refs, roots>>
    BY <1>9 DEF Collection, BeginCollection, BeginSweep, EndSweep, Mark, SweepMarked,
                SweepFree, SweepDestruct, SweepDestructing, heapVars
  <2> QED BY <2>1 DEF Reachable
<1>10. CASE BeginCollection
  <2>1. Reachable' = Reachable /\ Allocated' = Allocated
    BY <1>10, <1>9 DEF Collection, BeginCollection, Allocated
  <2> QED BY <1>10, <2>1, <1>0, ReachableIsLeast
          DEF BeginCollection, Heap, Marks, Sweep, Closed
<1>11. ASSUME NEW a \in Objects, NEW b \in Objects, Mark(a, b) PROVE Heap' /\ Marks' /\ Sweep'
  <2>1. Reachable' = Reachable /\ Allocated' = Allocated
    BY <1>11, <1>9 DEF Collection, Mark, Allocated
  <2>2. b \in Reachable /\ b \in Allocated
    BY <1>11, <1>0, ReachableIsLeast DEF Mark, Marks, Heap, Closed
  <2> QED BY <1>11, <2>1, <2>2 DEF Mark, Heap, Marks, Sweep, Closed
<1>12. CASE BeginSweep
  <2>1. Reachable' = Reachable /\ Allocated' = Allocated
    BY <1>12, <1>9 DEF Collection, BeginSweep, Allocated
  <2> QED BY <1>12, <2>1 DEF BeginSweep, Heap, Marks, Sweep, Closed
<1>13. ASSUME NEW o \in Objects, SweepMarked(o) PROVE Heap' /\ Marks' /\ Sweep'
  <2>1. Reachable' = Reachable /\ Allocated' = Allocated
    BY <1>13, <1>9 DEF Collection, SweepMarked, Allocated
  <2> QED BY <1>13, <2>1 DEF SweepMarked, Visit, Heap, Marks, Sweep, Closed
<1>14. ASSUME NEW o \in Objects, SweepFree(o) PROVE Heap' /\ Marks' /\ Sweep'
  <2>1. Reachable' = Reachable /\ UNCHANGED <<refs, roots, marked, this, phase>>
    BY <1>14, <1>9 DEF Collection, SweepFree
  <2>2. Allocated' = Allocated \ {o} /\ phase = "sweep" /\ o \notin marked
    BY <1>14, <1>0 DEF SweepFree, Visit, Allocated, HeapTypeOK
  <2>3. \A x \in Objects : memory'[x] = "unborn" => memory[x] = "unborn"
    BY <1>14, <1>0 DEF SweepFree, HeapTypeOK
  <2> QED BY <1>14, <2>1, <2>2, <2>3 DEF SweepFree, Visit, Heap, Marks, Sweep, Closed
<1>15. ASSUME NEW o \in Objects, SweepDestruct(o) \/ SweepDestructing(o) PROVE FALSE
  BY <1>15 DEF SweepDestruct, SweepDestructing, Visit, Sweep, NoInstances, Made, Allocated
<1>16. CASE EndSweep
  <2>1. Reachable' = Reachable /\ Allocated' = Allocated
    BY <1>16, <1>9 DEF Collection, EndSweep, Allocated
  <2>2. phase = "sweep" /\ Allocated = marked
    BY <1>16 DEF EndSweep, Marks, Sweep
  <2> QED BY <1>16, <2>1, <2>2 DEF EndSweep, Heap, Marks, Sweep, Closed
<1>17. CASE UNCHANGED heapVars
  <2>1. Reachable' = Reachable /\ Allocated' = Allocated
    BY <1>17, <1>9 DEF heapVars, Allocated
  <2> QED BY <1>17, <2>1 DEF heapVars, Heap, Marks, Sweep, Closed
<1> QED
  BY <1>8, <1>10, <1>11, <1>12, <1>13, <1>14, <1>15, <1>16, <1>17 DEF HeapNext, Collection

(* Every reachable state of a heap without destructors satisfies it. *)
LEMMA PlainAlways == HeapSpec => []PlainInv
  BY PlainInit, PlainStep, PTL DEF HeapSpec

(* The collector never frees an object that a program can get hold of      *)
(* (gc_object_table_item_list_garbage_collect after                        *)
(* virtual_machine_garbage_collect_raw).                                   *)
THEOREM NothingInUseIsFreed == HeapSpec => []NoDanglingReference
<1>1. PlainInv => NoDanglingReference
  BY DEF PlainInv, Heap, Closed, NoDanglingReference
<1> QED BY <1>1, PlainAlways, PTL

(* The object table lists exactly what is allocated. *)
THEOREM TableIsExact == HeapSpec => []AllocatedIsListed
<1>1. PlainInv => AllocatedIsListed
  BY DEF PlainInv, Heap, AllocatedIsListed
<1> QED BY <1>1, PlainAlways, PTL

(* A collection is exact: what it leaves allocated is what the program can *)
(* reach, no less and no more.  When the sweep ends nothing is ahead of    *)
(* it, so what is allocated is what is marked; the marks are inside        *)
(* Reachable, and being closed and holding the roots they are all of it.   *)
THEOREM CollectionsAreExact == HeapSpec => CollectionIsExact
<1> DEFINE Exact ==
      (NoInstances /\ phase = "sweep" /\ phase' = "run") =>
          \A o \in Objects :
              memory[o] # "unborn" => (memory[o] = "allocated" <=> o \in Reachable)
<1>1. PlainInv /\ [HeapNext]_heapVars => [Exact]_heapVars
  <2> SUFFICES ASSUME PlainInv, NoInstances, [HeapNext]_heapVars, phase = "sweep", phase' = "run"
               PROVE  \A o \in Objects : memory[o] = "allocated" <=> o \in Reachable
    OBVIOUS
  <2>1. EndSweep
    BY DEF HeapNext, Program, Collection, New, Drop, Confirm, EndDestructor, Load, Store, Erase,
           BeginCollection, BeginSweep, Mark, SweepMarked, SweepFree, SweepDestruct,
           SweepDestructing, Visit, gcVars, mutVars, heapVars
  <2>2. Allocated = marked
    BY <2>1 DEF EndSweep, PlainInv, Marks, Sweep
  <2>3. marked = Reachable
    <3>1. marked \subseteq Reachable /\ roots \subseteq marked /\ Closed(marked)
      BY DEF PlainInv, Marks, Sweep
    <3>2. marked \in SUBSET Objects
      BY DEF PlainInv, HeapTypeOK
    <3> QED BY <3>1, <3>2, ReachableIsLeast DEF PlainInv
  <2> QED BY <2>2, <2>3 DEF Allocated
<1> QED BY <1>1, PlainAlways, PTL DEF HeapSpec, CollectionIsExact

-----------------------------------------------------------------------------
(* Programs with destructors.  What the sweep has still to visit is listed *)
(* and allocated; only instances whose life is not normal have a thread.   *)
DestructorInv ==
    /\ HeapTypeOK
    /\ todo \subseteq table
    /\ table \subseteq Allocated
    /\ \A o \in this : o \in Finalizable /\ life[o] # "normal"
    /\ DestructorKeepsInstance

(* The invariant of the destructors holds at the start. *)
LEMMA DestructorInit == HeapInit => DestructorInv
  BY TypeInit DEF HeapInit, DestructorInv, DestructorKeepsInstance

(* Every step keeps the invariant of the destructors. *)
LEMMA DestructorStep == DestructorInv /\ [HeapNext]_heapVars => DestructorInv'
<1> SUFFICES ASSUME DestructorInv, [HeapNext]_heapVars PROVE DestructorInv'
  OBVIOUS
<1>0. HeapTypeOK /\ HeapTypeOK'
  BY TypeStep DEF DestructorInv
<1> USE <1>0 DEF DestructorInv, DestructorKeepsInstance, Allocated, HeapTypeOK, gcVars, mutVars
<1>1. ASSUME NEW o \in Objects, New(o) PROVE DestructorInv'
  BY <1>1 DEF New
<1>2. ASSUME NEW o \in Objects, Drop(o) \/ EndDestructor(o) PROVE DestructorInv'
  BY <1>2 DEF Drop, EndDestructor
<1>3. ASSUME NEW o \in Objects, Confirm(o) PROVE DestructorInv'
  BY <1>3 DEF Confirm
<1>4. ASSUME NEW a \in Objects, NEW b \in Objects, Load(a, b) \/ Store(a, b) \/ Erase(a, b)
      PROVE  DestructorInv'
  BY <1>4 DEF Load, Store, Erase
<1>5. CASE BeginCollection
  BY <1>5 DEF BeginCollection
<1>6. CASE BeginSweep
  BY <1>6 DEF BeginSweep
<1>7. CASE EndSweep
  BY <1>7 DEF EndSweep
<1>8. ASSUME NEW a \in Objects, NEW b \in Objects, Mark(a, b) PROVE DestructorInv'
  BY <1>8 DEF Mark
<1>9. ASSUME NEW o \in Objects, SweepMarked(o) PROVE DestructorInv'
  BY <1>9 DEF SweepMarked, Visit
<1>10. ASSUME NEW o \in Objects, SweepFree(o) PROVE DestructorInv'
  <2>1. \A x \in this : life[x] = "destructing" => x # o
    BY <1>10 DEF SweepFree
  <2> QED BY <1>10, <2>1 DEF SweepFree, Visit
<1>11. ASSUME NEW o \in Objects, SweepDestruct(o) PROVE DestructorInv'
  BY <1>11 DEF SweepDestruct, Visit
<1>12. ASSUME NEW o \in Objects, SweepDestructing(o) PROVE DestructorInv'
  BY <1>12 DEF SweepDestructing, Visit
<1>13. CASE UNCHANGED heapVars
  BY <1>13 DEF heapVars
<1> QED
  BY <1>1, <1>2, <1>3, <1>4, <1>5, <1>6, <1>7, <1>8, <1>9, <1>10, <1>11, <1>12, <1>13
  DEF HeapNext, Program, Collection

(* An instance outlives its destructor's work: as long as the destructor   *)
(* has not executed CLSDTOR the instance is allocated.                     *)
THEOREM InstanceOutlivesDestructor == HeapSpec => []DestructorKeepsInstance
<1>1. DestructorInv => DestructorKeepsInstance
  BY DEF DestructorInv
<1> QED BY <1>1, DestructorInit, DestructorStep, PTL DEF HeapSpec

(* No instance is destructed twice: destructing and destructed never go    *)
(* back, and a thread is started for a normal instance only.               *)
THEOREM DestructedOnce == HeapSpec => DestructorOnce
<1> SUFFICES ASSUME NEW o \in Finalizable
             PROVE  HeapSpec => [](o \in this => [](o \notin this => [](o \notin this)))
  BY DEF DestructorOnce
<1> DEFINE Running == o \in this
           Ended == o \notin this
           Begun == life[o] # "normal"
<1>1. DestructorInv => (Running => Begun)
  BY DEF DestructorInv
<1>2. DestructorInv /\ [HeapNext]_heapVars => (Begun => Begun') /\ (Begun /\ ~Running => ~Running')
  <2> SUFFICES ASSUME DestructorInv, [HeapNext]_heapVars, Begun
               PROVE  Begun' /\ (~Running => ~Running')
    OBVIOUS
  <2>1. o \in Objects /\ HeapTypeOK
    BY ObjectsAssumption DEF DestructorInv
  <2> USE <2>1 DEF gcVars, mutVars, HeapTypeOK
  <2>2. CASE Program
    BY <2>2 DEF Program, New, Drop, Confirm, EndDestructor, Load, Store, Erase
  <2>3. CASE BeginCollection \/ BeginSweep \/ EndSweep
    BY <2>3 DEF BeginCollection, BeginSweep, EndSweep
  <2>4. ASSUME NEW a \in Objects, NEW b \in Objects, Mark(a, b)
        PROVE  Begun' /\ (~Running => ~Running')
    BY <2>4 DEF Mark
  <2>5. ASSUME NEW x \in Objects, SweepMarked(x) \/ SweepFree(x) \/ SweepDestructing(x)
        PROVE  Begun' /\ (~Running => ~Running')
    BY <2>5 DEF SweepMarked, SweepFree, SweepDestructing
  <2>6. ASSUME NEW x \in Objects, SweepDestruct(x)
        PROVE  Begun' /\ (~Running => ~Running')
    <3>1. x # o
      BY <2>6 DEF SweepDestruct
    <3> QED BY <2>6, <3>1 DEF SweepDestruct
  <2>7. CASE UNCHANGED heapVars
    BY <2>7 DEF heapVars
  <2> QED BY <2>2, <2>3, <2>4, <2>5, <2>6, <2>7 DEF HeapNext, Collection
<1>3. Ended <=> ~Running
  OBVIOUS
<1> HIDE DEF Running, Ended, Begun
<1>4. HeapSpec => [](Running => [](Ended => []Ended))
  BY <1>1, <1>2, <1>3, DestructorInit, DestructorStep, PTL DEF HeapSpec
<1> QED BY <1>4 DEF Running, Ended

(* Without instances the heap is consistent between collections, with them *)
(* a destructor has its instance; the types hold throughout.               *)
THEOREM HeapStaysConsistent == HeapSpec => []HeapConsistent
<1>1. HeapTypeOK /\ NoDanglingReference /\ AllocatedIsListed /\ DestructorKeepsInstance => HeapConsistent
  BY DEF HeapConsistent
<1> QED
  BY <1>1, TypeCorrect, NothingInUseIsFreed, TableIsExact, InstanceOutlivesDestructor, PTL
-----------------------------------------------------------------------------
Size == 0 .. Width - 1

PoolRecord ==
    [kind : {"plain", "linked", "paged"}, chain : Seq(Nat), out : SUBSET Nat,
     large : Nat, cores : Nat, torn : BOOLEAN, refused : BOOLEAN,
     used : Size, free : Size, total : Size, extra : Size, prev : Size]

(* The blocks of the cores there are, and of the one that was given back.  *)
Reach(p) == (IF p.torn THEN p.cores + 1 ELSE p.cores) * BlockCount

OnceEach(p) ==
    /\ \A i \in 1 .. Len(p.chain) : p.chain[i] \in 1 .. Reach(p)
    /\ \A i, j \in 1 .. Len(p.chain) : i # j => p.chain[i] # p.chain[j]
    /\ \A i \in 1 .. Len(p.chain) : p.chain[i] \notin p.out
    /\ p.out \subseteq 1 .. Reach(p)

(* The counters cannot wrap: there are less than Width blocks.             *)
Counted(p) ==
    /\ p.used = Cardinality(p.out) /\ p.free = Len(p.chain)
    /\ p.free + p.used = p.total /\ p.total = p.cores * BlockCount

LinkedOK(p) ==
    /\ p \in PoolRecord /\ p.kind = "linked" /\ p.cores \in 0 .. MaxCores
    /\ IsFiniteSet(p.out) /\ OnceEach(p) /\ (~p.torn => Counted(p))

PagedOK(p) ==
    /\ p \in PoolRecord /\ p.kind = "paged" /\ p.chain = <<>> /\ ~p.torn
    /\ p.out \subseteq Paged!Page /\ p.used = Cardinality(p.out)
    /\ p.total = Pages /\ p.free + p.used = p.total

PlainOK(p) ==
    /\ p \in PoolRecord /\ p.kind = "plain" /\ p.chain = <<>> /\ p.out = {} /\ ~p.torn

PoolOK(p) == LinkedOK(p) \/ PagedOK(p) \/ PlainOK(p)

(* What growing leaves alone.                                              *)
Grows(p, q) ==
    /\ q.kind = p.kind /\ q.out = p.out /\ q.large = p.large
    /\ q.used = p.used /\ q.prev = p.prev /\ q.total >= p.total
    /\ ChainSet(p) \subseteq ChainSet(q)
-----------------------------------------------------------------------------
LEMMA CoresFit ==
    ASSUME NEW n \in 0 .. MaxCores
    PROVE  /\ n * BlockCount \in Nat /\ (n + 1) * BlockCount = n * BlockCount + BlockCount
           /\ n * BlockCount <= (MaxCores + 1) * BlockCount
           /\ (n + 1) * BlockCount <= (MaxCores + 1) * BlockCount
           /\ n * BlockCount \in Size
           /\ n < MaxCores => (n + 1) * BlockCount \in Size
<1>1. /\ BlockCount \in Nat \ {0} /\ MaxCores \in Nat /\ Width \in Nat /\ n \in Nat
      /\ n <= MaxCores /\ MaxCores * BlockCount < Width
  BY PoolAssumption
<1>2. \A k, l \in Nat : k <= l => k * BlockCount \in Nat /\ k * BlockCount <= l * BlockCount
  BY <1>1
<1>3. (n + 1) * BlockCount = n * BlockCount + BlockCount
  BY <1>1
<1>4. /\ n * BlockCount \in Nat /\ n * BlockCount <= MaxCores * BlockCount
      /\ n * BlockCount <= (MaxCores + 1) * BlockCount
      /\ (n + 1) * BlockCount <= (MaxCores + 1) * BlockCount
      /\ n < MaxCores => (n + 1) * BlockCount <= MaxCores * BlockCount
  BY <1>1, <1>2
<1>5. (n + 1) * BlockCount \in Nat /\ MaxCores * BlockCount \in Nat
  BY <1>1, <1>2
<1> QED BY <1>1, <1>3, <1>4, <1>5 DEF Size

LEMMA NoWrap == \A k \in Size : k % Width = k
BY PoolAssumption DEF Size

(* Natural numbers have a least one.                                       *)
LEMMA Least ==
    ASSUME NEW S \in SUBSET Nat, S # {}
    PROVE  \E m \in S : \A n \in S : m <= n
<1> DEFINE R == {p \in Nat \X Nat : p[1] < p[2]}
<1>1. IsWellFoundedOn(R, Nat)
  BY NatLessThanWellFounded DEF OpToRel, IsWellFoundedOn
<1>2. PICK m \in S : \A n \in S : ~ (<<n, m>> \in R)
  BY <1>1, WFMin
<1>3. ASSUME NEW n \in S PROVE m <= n
  <2>1. m \in Nat /\ n \in Nat
    OBVIOUS
  <2>2. ~ (n < m)
    BY <1>2, <2>1
  <2> QED BY <2>1, <2>2
<1> QED BY <1>3

(* A core more at the end of the chain: its blocks are new.                *)
LEMMA FilledOnce ==
    ASSUME NEW p, LinkedOK(p), ~p.torn
    PROVE  LET chain == p.chain \o Linked!CoreBlocks(p.cores)
           IN  /\ chain \in Seq(Nat) /\ Len(chain) = Len(p.chain) + BlockCount
               /\ \A i \in 1 .. Len(p.chain) : chain[i] = p.chain[i]
               /\ \A i \in 1 .. Len(chain) :
                     chain[i] \in 1 .. (p.cores + 1) * BlockCount /\ chain[i] \notin p.out
               /\ \A i, j \in 1 .. Len(chain) : i # j => chain[i] # chain[j]
<1> DEFINE more == Linked!CoreBlocks(p.cores)
           old == p.cores * BlockCount
           chain == p.chain \o more
<1>1. /\ p.chain \in Seq(Nat) /\ p.cores \in 0 .. MaxCores /\ p.out \subseteq 1 .. old
      /\ \A i \in 1 .. Len(p.chain) : p.chain[i] \in 1 .. old /\ p.chain[i] \notin p.out
      /\ \A i, j \in 1 .. Len(p.chain) : i # j => p.chain[i] # p.chain[j]
  BY DEF LinkedOK, PoolRecord, OnceEach, Reach
<1>2. old \in Nat /\ (p.cores + 1) * BlockCount = old + BlockCount /\ BlockCount \in Nat
  BY <1>1, CoresFit, PoolAssumption
<1>3. more = [i \in 1 .. BlockCount |-> old + i]
  BY DEF Linked!CoreBlocks
<1>4. more \in Seq(Nat) /\ Len(more) = BlockCount
      /\ \A i \in 1 .. BlockCount : more[i] = old + i
  <2>1. \A i \in 1 .. BlockCount : old + i \in Nat
    BY <1>2
  <2> HIDE DEF old
  <2> QED BY <1>2, <1>3, <2>1
<1> HIDE DEF more, old
<1>5. Len(p.chain) \in Nat /\ Len(more) \in Nat
  BY <1>1, <1>4, LenProperties
<1>6. /\ chain \in Seq(Nat) /\ Len(chain) = Len(p.chain) + BlockCount
      /\ \A i \in 1 .. Len(p.chain) + BlockCount :
            chain[i] = IF i <= Len(p.chain) THEN p.chain[i] ELSE more[i - Len(p.chain)]
  <2>1. \A s, t \in Seq(Nat) :
           /\ s \o t \in Seq(Nat) /\ Len(s \o t) = Len(s) + Len(t)
           /\ \A i \in 1 .. Len(s) + Len(t) :
                 (s \o t)[i] = IF i <= Len(s) THEN s[i] ELSE t[i - Len(s)]
    BY ConcatProperties
  <2> QED BY <1>1, <1>4, <2>1
<1> HIDE DEF chain
<1>d. PICK n \in Nat : n = Len(p.chain)
  BY <1>5
<1>7. ASSUME NEW i \in 1 .. n + BlockCount, i > n
      PROVE  i - n \in 1 .. BlockCount /\ chain[i] = old + (i - n)
  <2>1. i - n \in 1 .. BlockCount /\ ~ (i <= n)
    BY <1>2, <1>7
  <2>2. more[i - n] = old + (i - n)
    BY <1>4, <2>1
  <2>3. chain[i] = more[i - n]
    BY <1>6, <1>d, <2>1
  <2> QED BY <2>1, <2>2, <2>3
<1>8. \A i \in 1 .. n : chain[i] = p.chain[i] /\ chain[i] \in 1 .. old /\ chain[i] \notin p.out
  <2> TAKE i \in 1 .. n
  <2>1. i \in 1 .. n + BlockCount /\ i <= n /\ i \in 1 .. Len(p.chain)
    BY <1>2, <1>d
  <2>2. chain[i] = p.chain[i]
    BY <1>6, <1>d, <2>1
  <2> QED BY <1>1, <2>1, <2>2
<1>9. ASSUME NEW i \in 1 .. n + BlockCount
      PROVE  chain[i] \in 1 .. old + BlockCount /\ chain[i] \notin p.out
  <2>1. CASE i <= n
    <3>1. chain[i] \in 1 .. old /\ chain[i] \notin p.out
      BY <1>8, <2>1
    <3> QED BY <1>2, <3>1
  <2>2. CASE i > n
    <3>1. PICK k \in 1 .. BlockCount : chain[i] = old + k
      BY <1>7, <2>2
    <3>2. chain[i] \in 1 .. old + BlockCount /\ chain[i] \notin 1 .. old
      BY <1>2, <3>1
    <3> QED BY <1>1, <3>2
  <2>3. i \in Int
    OBVIOUS
  <2> QED BY <2>1, <2>2, <2>3
<1>10. ASSUME NEW i \in 1 .. n + BlockCount, NEW j \in 1 .. n + BlockCount, i < j
       PROVE  chain[i] # chain[j]
  <2>1. CASE j <= n
    <3>1. i \in 1 .. n /\ j \in 1 .. n /\ i # j
      BY <1>2, <1>10, <2>1
    <3> QED BY <1>1, <1>8, <1>d, <3>1
  <2>2. CASE j > n /\ i <= n
    <3>1. i \in 1 .. n
      BY <2>2
    <3>2. chain[i] \in 1 .. old
      BY <1>8, <3>1
    <3>3. PICK k \in 1 .. BlockCount : chain[j] = old + k
      BY <1>7, <2>2
    <3> QED BY <1>2, <3>2, <3>3
  <2>3. CASE i > n
    <3>0. j > n
      BY <1>2, <1>10, <2>3
    <3>1. chain[i] = old + (i - n) /\ chain[j] = old + (j - n)
      BY <1>7, <2>3, <3>0
    <3> QED BY <1>2, <1>10, <3>1
  <2> QED BY <1>2, <2>1, <2>2, <2>3
<1>11. ASSUME NEW i \in 1 .. n + BlockCount, NEW j \in 1 .. n + BlockCount, i # j
       PROVE  chain[i] # chain[j]
  <2>1. i < j \/ j < i
    BY <1>11
  <2> QED BY <1>10, <2>1
<1> QED BY <1>2, <1>6, <1>8, <1>9, <1>11, <1>d DEF chain, more

(* A new core, counted, or half of one that is given back.                 *)
LEMMA GenerateKeeps ==
    ASSUME NEW p, LinkedOK(p), ~p.torn, NEW g \in Linked!Generate(p)
    PROVE  LET q == IF g.ok THEN Linked!Count(g.pool) ELSE g.pool
           IN  /\ LinkedOK(q) /\ Grows(p, q)
               /\ g.ok => ~q.torn /\ Len(q.chain) = Len(p.chain) + BlockCount /\ q.total > p.total
               /\ ~g.ok => q.refused
               /\ g.ok \in BOOLEAN
<1> DEFINE c == p.chain \o Linked!CoreBlocks(p.cores)
           q == IF g.ok THEN Linked!Count(g.pool) ELSE g.pool
<1>1. /\ p \in PoolRecord /\ p.kind = "linked" /\ p.cores \in 0 .. MaxCores
      /\ IsFiniteSet(p.out) /\ OnceEach(p) /\ Counted(p)
  BY DEF LinkedOK
<1>2. /\ c \in Seq(Nat) /\ Len(c) = Len(p.chain) + BlockCount
      /\ \A i \in 1 .. Len(p.chain) : c[i] = p.chain[i]
      /\ \A i \in 1 .. Len(c) : c[i] \in 1 .. (p.cores + 1) * BlockCount /\ c[i] \notin p.out
      /\ \A i, j \in 1 .. Len(c) : i # j => c[i] # c[j]
  BY FilledOnce
<1>3. /\ p.cores * BlockCount \in Nat
      /\ (p.cores + 1) * BlockCount = p.cores * BlockCount + BlockCount
      /\ p.cores < MaxCores => (p.cores + 1) * BlockCount \in Size
      /\ BlockCount \in Nat \ {0} /\ Width \in Nat \ {0}
  BY <1>1, CoresFit, PoolAssumption
<1>4. /\ p.out \subseteq 1 .. (p.cores + 1) * BlockCount
      /\ \A i \in 1 .. Len(p.chain) : i \in 1 .. Len(c) /\ p.chain[i] = c[i]
  <2>1. Len(p.chain) \in Nat /\ p.out \subseteq 1 .. p.cores * BlockCount
    BY <1>1, LenProperties DEF PoolRecord, OnceEach, Reach
  <2>2. \A i \in 1 .. Len(p.chain) : i \in 1 .. Len(c)
    BY <1>2, <1>3, <2>1
  <2>3. p.out \subseteq 1 .. (p.cores + 1) * BlockCount
    BY <1>3, <2>1
  <2> HIDE DEF c
  <2> QED BY <1>2, <2>2, <2>3
<1>n. /\ p.total \in Nat /\ p.free \in Nat /\ p.used \in Nat /\ Len(p.chain) \in Nat
      /\ p.free + p.used = p.total
  BY <1>1, LenProperties DEF PoolRecord, Size, Counted
<1> HIDE DEF c
<1>5. CASE g = [ok |-> FALSE, pool |-> [p EXCEPT !.refused = TRUE]]
  <2>1. q = [p EXCEPT !.refused = TRUE] /\ g.ok = FALSE
    BY <1>5
  <2>2. /\ q \in PoolRecord /\ q.refused /\ q.torn = p.torn /\ q.chain = p.chain
        /\ q.kind = p.kind /\ q.out = p.out /\ q.large = p.large /\ q.cores = p.cores
        /\ q.used = p.used /\ q.prev = p.prev /\ q.total = p.total /\ q.free = p.free
    BY <1>1, <2>1 DEF PoolRecord
  <2> HIDE DEF q
  <2>3. OnceEach(q) /\ Counted(q)
    BY <1>1, <2>2 DEF OnceEach, Reach, Counted
  <2>4. Grows(p, q)
    BY <1>n, <2>2 DEF Grows, ChainSet
  <2> QED BY <1>1, <2>1, <2>2, <2>3, <2>4 DEF LinkedOK, q
<1>6. CASE g = [ok |-> FALSE, pool |-> [[p EXCEPT !.chain = c] EXCEPT !.refused = TRUE, !.torn = TRUE]]
  <2>1. q = [p EXCEPT !.chain = c, !.refused = TRUE, !.torn = TRUE] /\ g.ok = FALSE
    BY <1>1, <1>6 DEF PoolRecord
  <2>2. /\ q \in PoolRecord /\ q.refused /\ q.torn /\ q.chain = c
        /\ q.kind = p.kind /\ q.out = p.out /\ q.large = p.large /\ q.cores = p.cores
        /\ q.used = p.used /\ q.prev = p.prev /\ q.total = p.total
    BY <1>1, <1>2, <2>1 DEF PoolRecord
  <2> HIDE DEF q
  <2>3. OnceEach(q)
    BY <1>2, <1>4, <2>2 DEF OnceEach, Reach
  <2>4. Grows(p, q)
    <3>1. \A v \in ChainSet(p) : v \in ChainSet(q)
      BY <1>4, <2>2 DEF ChainSet
    <3> QED BY <1>n, <2>2, <3>1 DEF Grows
  <2> QED BY <1>1, <2>1, <2>2, <2>3, <2>4 DEF LinkedOK, q
<1>7. CASE /\ p.cores < MaxCores
           /\ g = [ok |-> TRUE, pool |-> [[p EXCEPT !.chain = c] EXCEPT !.cores = @ + 1]]
  <2>1. /\ g.ok = TRUE /\ q = [p EXCEPT !.chain = c, !.cores = p.cores + 1,
                    !.total = (p.total + BlockCount) % Width, !.free = (p.free + BlockCount) % Width]
    BY <1>1, <1>7 DEF PoolRecord, Linked!Count
  <2>2. /\ (p.total + BlockCount) % Width = p.total + BlockCount
        /\ (p.free + BlockCount) % Width = p.free + BlockCount
        /\ p.total + BlockCount \in Size /\ p.free + BlockCount \in Size
        /\ p.cores + 1 \in 0 .. MaxCores
    <3>1. p.total + BlockCount \in Size /\ p.free \in Nat /\ p.used \in Nat /\ p.free + p.used = p.total
          /\ p.total \in Nat
      BY <1>1, <1>3, <1>7 DEF Counted, PoolRecord, Size
    <3>2. p.free + BlockCount \in Size
      BY <1>3, <3>1 DEF Size
    <3>3. \A n \in Size : n % Width = n
      BY NoWrap
    <3>4. p.cores + 1 \in 0 .. MaxCores
      BY <1>1, <1>7, PoolAssumption
    <3> QED BY <3>1, <3>2, <3>3, <3>4
  <2>3. /\ q \in PoolRecord /\ ~q.torn /\ q.chain = c /\ q.cores = p.cores + 1
        /\ q.kind = p.kind /\ q.out = p.out /\ q.large = p.large
        /\ q.used = p.used /\ q.prev = p.prev /\ q.total = p.total + BlockCount
        /\ q.free = p.free + BlockCount
    <3> DEFINE total == (p.total + BlockCount) % Width
               free == (p.free + BlockCount) % Width
    <3>1. /\ q = [p EXCEPT !.chain = c, !.cores = p.cores + 1, !.total = total, !.free = free]
          /\ total \in Size /\ free \in Size /\ p.cores + 1 \in Nat
      BY <2>1, <2>2
    <3> HIDE DEF q, total, free
    <3>2. /\ q \in PoolRecord /\ q.torn = p.torn /\ q.chain = c /\ q.cores = p.cores + 1
          /\ q.kind = p.kind /\ q.out = p.out /\ q.large = p.large
          /\ q.used = p.used /\ q.prev = p.prev /\ q.total = total /\ q.free = free
      BY <1>1, <1>2, <3>1 DEF PoolRecord
    <3> QED BY <2>2, <3>2 DEF total, free
  <2> HIDE DEF q
  <2>4. OnceEach(q)
    BY <1>2, <1>4, <2>3 DEF OnceEach, Reach
  <2>5. Grows(p, q) /\ q.total > p.total
    <3>1. \A v \in ChainSet(p) : v \in ChainSet(q)
      BY <1>4, <2>3 DEF ChainSet
    <3> QED BY <1>3, <1>n, <2>3, <3>1 DEF Grows
  <2>6. Counted(q)
    BY <1>1, <1>2, <1>3, <1>n, <2>3 DEF Counted
  <2> QED BY <1>1, <1>2, <2>1, <2>2, <2>3, <2>4, <2>5, <2>6 DEF LinkedOK, q
<1> QED BY <1>5, <1>6, <1>7 DEF Linked!Generate, c

(* Two new cores; what goes wrong with one of them is a refusal.           *)
LEMMA ExtendKeeps ==
    ASSUME NEW p, LinkedOK(p), ~p.torn, NEW e \in Linked!Extend(p)
    PROVE  /\ LinkedOK(e.pool) /\ Grows(p, e.pool)
           /\ e.ok => ~e.pool.torn /\ e.pool.chain # <<>>
           /\ e.pool.total > p.total \/ e.pool.refused
<1>1. \/ e \in Linked!Generate(p) /\ ~e.ok
      \/ \E g \in Linked!Generate(p) : g.ok /\ \E h \in Linked!Generate(Linked!Count(g.pool)) :
            e = IF h.ok THEN [h EXCEPT !.pool = Linked!Count(@)] ELSE h
  BY DEF Linked!Extend
<1>2. CASE e \in Linked!Generate(p) /\ ~e.ok
  BY <1>2, GenerateKeeps
<1>3. ASSUME NEW g \in Linked!Generate(p), g.ok, NEW h \in Linked!Generate(Linked!Count(g.pool)),
             e = IF h.ok THEN [h EXCEPT !.pool = Linked!Count(@)] ELSE h
      PROVE  /\ LinkedOK(e.pool) /\ Grows(p, e.pool)
             /\ e.ok => ~e.pool.torn /\ e.pool.chain # <<>>
             /\ e.pool.total > p.total \/ e.pool.refused
  <2> DEFINE mid == Linked!Count(g.pool)
  <2>1. /\ LinkedOK(mid) /\ ~mid.torn /\ Grows(p, mid) /\ mid.total > p.total
    BY <1>3, GenerateKeeps
  <2> HIDE DEF mid
  <2>2. e = (IF h.ok THEN [h EXCEPT !.pool = Linked!Count(@)] ELSE h)
        /\ h \in Linked!Generate(mid)
    BY <1>3 DEF mid
  <2>3. h.ok => e.pool = Linked!Count(h.pool) /\ e.ok
    BY <2>2 DEF Linked!Generate
  <2>4. ~h.ok => e.pool = h.pool /\ ~e.ok
    BY <2>2
  <2>5. /\ LinkedOK(e.pool) /\ Grows(mid, e.pool) /\ (e.ok => ~e.pool.torn /\ Len(e.pool.chain) = Len(mid.chain) + BlockCount)
    BY <2>1, <2>2, <2>3, <2>4, GenerateKeeps
  <2>6. Len(mid.chain) \in Nat /\ mid.total \in Nat /\ p.total \in Nat /\ e.pool.total \in Nat
    BY <2>1, <2>5, LenProperties DEF LinkedOK, PoolRecord, Size
  <2>7. Grows(p, e.pool)
    BY <2>1, <2>5, <2>6 DEF Grows
  <2>8. e.ok => e.pool.chain # <<>>
    <3>1. BlockCount \in Nat \ {0} /\ Len(<<>>) = 0
      BY PoolAssumption
    <3> QED BY <2>5, <2>6, <3>1
  <2> QED BY <2>1, <2>5, <2>6, <2>7, <2>8 DEF Grows
<1> QED BY <1>1, <1>2, <1>3
-----------------------------------------------------------------------------
(* What a region can give: what is out, and what its pool still has.       *)
Stock(p) == p.out \union IF p.kind = "paged" THEN Paged!Page ELSE ChainSet(p)

Gives(p, q) ==
    /\ Stock(p) \subseteq Stock(q)
    /\ \E b \in Stock(q) \ p.out : q.out = p.out \union {b}

Same(p, q) == q.kind = p.kind /\ q.large = p.large /\ q.prev = p.prev

(* The head of the chain is nobody's.                                      *)
LEMMA PickKeeps ==
    ASSUME NEW p, LinkedOK(p), ~p.torn, p.chain # <<>>
    PROVE  LET q == Linked!Pick(p).pool
           IN  LinkedOK(q) /\ ~q.torn /\ Same(p, q) /\ Gives(p, q)
<1> DEFINE q == Linked!Pick(p).pool
           b == Head(p.chain)
           used == (p.used + 1) % Width
           free == (p.free - 1) % Width
<1>1. /\ p \in PoolRecord /\ p.kind = "linked" /\ p.cores \in 0 .. MaxCores
      /\ IsFiniteSet(p.out) /\ OnceEach(p) /\ Counted(p) /\ p.chain \in Seq(Nat) /\ p.chain # <<>>
  BY DEF LinkedOK, PoolRecord
<1>2. PICK n \in Nat : Len(p.chain) = n + 1
  <2>1. Len(p.chain) \in Nat /\ Len(p.chain) # 0
    BY <1>1, LenProperties, EmptySeq
  <2>2. Len(p.chain) - 1 \in Nat /\ Len(p.chain) = (Len(p.chain) - 1) + 1
    BY <2>1
  <2> QED BY <2>2
<1>3. PICK t \in Seq(Nat) :
         /\ t = Tail(p.chain) /\ Len(t) = n /\ b = p.chain[1] /\ b \in Nat
         /\ \A i \in 1 .. n : t[i] = p.chain[i + 1]
  <2>1. \A s \in Seq(Nat) : s # <<>> =>
           /\ Head(s) \in Nat /\ Tail(s) \in Seq(Nat) /\ Head(s) = s[1]
           /\ Len(Tail(s)) = Len(s) - 1
           /\ \A i \in 1 .. Len(s) - 1 : Tail(s)[i] = s[i + 1]
    BY HeadTailProperties
  <2>2. Head(p.chain) \in Nat /\ Tail(p.chain) \in Seq(Nat) /\ Head(p.chain) = p.chain[1]
    BY <1>1, <2>1
  <2>3. Len(Tail(p.chain)) = n
    BY <1>1, <1>2, <2>1
  <2>4. \A i \in 1 .. n : Tail(p.chain)[i] = p.chain[i + 1]
    BY <1>1, <1>2, <2>1
  <2> QED BY <2>2, <2>3, <2>4
<1>4. /\ \A i \in 1 .. n + 1 : p.chain[i] \in 1 .. Reach(p) /\ p.chain[i] \notin p.out
      /\ \A i, j \in 1 .. n + 1 : i # j => p.chain[i] # p.chain[j]
      /\ p.out \subseteq 1 .. Reach(p)
  BY <1>1, <1>2 DEF OnceEach
<1>5. /\ p.used + 1 \in Size /\ p.free - 1 \in Size /\ p.free = n + 1
      /\ used = p.used + 1 /\ free = p.free - 1
      /\ p.free \in Nat /\ p.used \in Nat /\ p.total \in Nat
  <2>1. p.free = n + 1 /\ p.free + p.used = p.total /\ p.total < Width
        /\ p.free \in Nat /\ p.used \in Nat /\ p.total \in Nat /\ Width \in Nat \ {0}
    BY <1>1, <1>2, PoolAssumption DEF Counted, PoolRecord, Size
  <2>2. p.used + 1 \in Size /\ p.free - 1 \in Size
    BY <2>1 DEF Size
  <2>3. \A k \in Size : k % Width = k
    BY NoWrap
  <2> QED BY <2>1, <2>2, <2>3
<1>6. q = [p EXCEPT !.chain = t, !.out = p.out \union {b}, !.used = used, !.free = free]
  BY <1>1, <1>3 DEF Linked!Pick, PoolRecord
<1>7. p.out \union {b} \in SUBSET Nat /\ used \in Size /\ free \in Size
  BY <1>1, <1>3, <1>5 DEF PoolRecord
<1> HIDE DEF q, b, used, free
<1>8. /\ q \in PoolRecord /\ q.chain = t /\ q.out = p.out \union {b} /\ q.torn = p.torn
      /\ q.kind = p.kind /\ q.large = p.large /\ q.prev = p.prev /\ q.cores = p.cores
      /\ q.total = p.total /\ q.used = p.used + 1 /\ q.free = p.free - 1
  BY <1>1, <1>3, <1>5, <1>6, <1>7 DEF PoolRecord
<1>9. b \notin p.out /\ b \in 1 .. Reach(p) /\ \A i \in 1 .. n : t[i] # b
  <2>1. 1 \in 1 .. n + 1 /\ \A i \in 1 .. n : i + 1 \in 1 .. n + 1 /\ i + 1 # 1
    OBVIOUS
  <2> QED BY <1>3, <1>4, <2>1
<1>10. OnceEach(q)
  <2>1. \A i \in 1 .. n : i + 1 \in 1 .. n + 1
    OBVIOUS
  <2>2. /\ \A i \in 1 .. n : t[i] \in 1 .. Reach(p) /\ t[i] \notin p.out
        /\ \A i, j \in 1 .. n : i # j => t[i] # t[j]
    BY <1>3, <1>4, <2>1
  <2>3. Reach(q) = Reach(p)
    BY <1>8 DEF Reach
  <2> QED BY <1>3, <1>4, <1>8, <1>9, <2>2, <2>3 DEF OnceEach
<1>11. IsFiniteSet(q.out) /\ Cardinality(q.out) = Cardinality(p.out) + 1
  BY <1>1, <1>8, <1>9, FS_AddElement
<1>12. Counted(q)
  BY <1>1, <1>2, <1>3, <1>5, <1>8, <1>11 DEF Counted
<1>13. Gives(p, q)
  <2>1. p.chain[1] \in ChainSet(p) /\ q.kind # "paged" /\ p.kind # "paged"
    BY <1>1, <1>2, <1>8 DEF ChainSet
  <2>2. ASSUME NEW v \in ChainSet(p), v # b PROVE v \in ChainSet(q)
    <3>1. PICK i \in 1 .. n + 1 : v = p.chain[i]
      BY <1>2 DEF ChainSet
    <3>2. i - 1 \in 1 .. n /\ i = (i - 1) + 1
      BY <1>3, <2>2, <3>1
    <3>3. v = q.chain[i - 1] /\ i - 1 \in 1 .. Len(q.chain)
      BY <1>3, <1>8, <3>1, <3>2
    <3> QED BY <3>3 DEF ChainSet
  <2>3. Stock(p) \subseteq Stock(q)
    BY <1>8, <2>1, <2>2 DEF Stock
  <2>4. b \in Stock(q) \ p.out
    BY <1>8, <1>9 DEF Stock
  <2> QED BY <1>8, <2>3, <2>4 DEF Gives
<1> QED BY <1>1, <1>8, <1>10, <1>11, <1>12, <1>13 DEF LinkedOK, Same, q

(* A block that comes back is in the chain once.                           *)
LEMMA FreeKeeps ==
    ASSUME NEW p, LinkedOK(p), ~p.torn, NEW b \in p.out
    PROVE  LET q == Linked!Free(p, b)
           IN  /\ LinkedOK(q) /\ ~q.torn /\ Same(p, q)
               /\ q.out = p.out \ {b} /\ Stock(q) = Stock(p)
<1> DEFINE q == Linked!Free(p, b)
           c == Append(p.chain, b)
           used == (p.used - 1) % Width
           free == (p.free + 1) % Width
<1>1. /\ p \in PoolRecord /\ p.kind = "linked" /\ p.cores \in 0 .. MaxCores
      /\ IsFiniteSet(p.out) /\ OnceEach(p) /\ Counted(p) /\ p.chain \in Seq(Nat) /\ b \in Nat
  BY DEF LinkedOK, PoolRecord
<1>2. PICK n \in Nat : Len(p.chain) = n
  BY <1>1, LenProperties
<1>3. /\ c \in Seq(Nat) /\ Len(c) = n + 1 /\ c[n + 1] = b
      /\ \A i \in 1 .. n : c[i] = p.chain[i]
  <2>1. \A s \in Seq(Nat), e \in Nat :
           /\ Append(s, e) \in Seq(Nat) /\ Len(Append(s, e)) = Len(s) + 1
           /\ \A i \in 1 .. Len(s) : Append(s, e)[i] = s[i]
           /\ Append(s, e)[Len(s) + 1] = e
    BY AppendProperties
  <2> QED BY <1>1, <1>2, <2>1
<1>4. /\ \A i \in 1 .. n : p.chain[i] \in 1 .. Reach(p) /\ p.chain[i] \notin p.out
      /\ \A i, j \in 1 .. n : i # j => p.chain[i] # p.chain[j]
      /\ p.out \subseteq 1 .. Reach(p)
  BY <1>1, <1>2 DEF OnceEach
<1>5. IsFiniteSet(p.out \ {b}) /\ Cardinality(p.out \ {b}) = Cardinality(p.out) - 1
      /\ Cardinality(p.out \ {b}) \in Nat
  BY <1>1, FS_RemoveElement, FS_CardinalityType
<1>6. /\ p.used - 1 \in Size /\ p.free + 1 \in Size /\ p.free = n
      /\ used = p.used - 1 /\ free = p.free + 1
      /\ p.free \in Nat /\ p.used \in Nat /\ p.total \in Nat
  <2>1. p.free = n /\ p.free + p.used = p.total /\ p.total < Width /\ p.used # 0
        /\ p.free \in Nat /\ p.used \in Nat /\ p.total \in Nat /\ Width \in Nat \ {0}
    BY <1>1, <1>2, <1>5, PoolAssumption DEF Counted, PoolRecord, Size
  <2>2. p.used - 1 \in Size /\ p.free + 1 \in Size
    BY <2>1 DEF Size
  <2>3. \A k \in Size : k % Width = k
    BY NoWrap
  <2> QED BY <2>1, <2>2, <2>3
<1>7. q = [p EXCEPT !.chain = c, !.out = p.out \ {b}, !.used = used, !.free = free]
  BY <1>1 DEF Linked!Free, PoolRecord
<1>8. p.out \ {b} \in SUBSET Nat /\ used \in Size /\ free \in Size
  BY <1>1, <1>6 DEF PoolRecord
<1> HIDE DEF q, c, used, free
<1>9. /\ q \in PoolRecord /\ q.chain = c /\ q.out = p.out \ {b} /\ q.torn = p.torn
      /\ q.kind = p.kind /\ q.large = p.large /\ q.prev = p.prev /\ q.cores = p.cores
      /\ q.total = p.total /\ q.used = p.used - 1 /\ q.free = p.free + 1
  BY <1>1, <1>3, <1>6, <1>7, <1>8 DEF PoolRecord
<1>10. \A i \in 1 .. n + 1 : (i \in 1 .. n /\ c[i] = p.chain[i]) \/ (i = n + 1 /\ c[i] = b)
  <2>1. \A i \in 1 .. n + 1 : i \in 1 .. n \/ i = n + 1
    OBVIOUS
  <2> QED BY <1>3, <2>1
<1>11. OnceEach(q)
  <2>1. Reach(q) = Reach(p)
    BY <1>9 DEF Reach
  <2>2. \A i \in 1 .. n + 1 : c[i] \in 1 .. Reach(p) /\ c[i] \notin p.out \ {b}
    BY <1>4, <1>10
  <2>3. \A i, j \in 1 .. n + 1 : i # j => c[i] # c[j]
    BY <1>4, <1>10
  <2> QED BY <1>3, <1>4, <1>9, <2>1, <2>2, <2>3 DEF OnceEach
<1>12. Counted(q)
  <2>1. q.used = Cardinality(q.out)
    BY <1>1, <1>5, <1>9 DEF Counted
  <2>2. q.free + q.used = q.total
    BY <1>1, <1>6, <1>9 DEF Counted
  <2> QED BY <1>1, <1>3, <1>6, <1>9, <2>1, <2>2 DEF Counted
<1>13. Stock(q) = Stock(p)
  <2>1. \A v : v \in ChainSet(p) <=> \E i \in 1 .. n : v = p.chain[i]
    BY <1>2 DEF ChainSet
  <2>2. \A v : v \in ChainSet(q) <=> \E i \in 1 .. n + 1 : v = c[i]
    BY <1>3, <1>9 DEF ChainSet
  <2>3. \A i \in 1 .. n : i \in 1 .. n + 1
    OBVIOUS
  <2>4. n + 1 \in 1 .. n + 1
    OBVIOUS
  <2>5. \A v : v \in ChainSet(q) <=> v \in ChainSet(p) \/ v = b
    BY <1>3, <1>10, <2>1, <2>2, <2>3, <2>4
  <2> QED BY <1>1, <1>9, <2>5 DEF Stock
<1> QED BY <1>1, <1>5, <1>9, <1>11, <1>12, <1>13 DEF LinkedOK, Same, q

(* A request: refused, from the system, or a block that nobody holds.      *)
Answers(p, q) ==
    \/ Stock(p) \subseteq Stock(q) /\ q.out = p.out
    \/ Gives(p, q)

LEMMA LinkedMalloc ==
    ASSUME NEW p, LinkedOK(p), ~p.torn, NEW size, NEW o \in Linked!Malloc(p, size)
    PROVE  /\ LinkedOK(o.pool) /\ Answers(p, o.pool)
           /\ o.pool.kind = p.kind /\ o.pool.prev = p.prev
           /\ o.pool.large \in {p.large, p.large + 1}
<1> DEFINE q == o.pool
<1>1. p \in PoolRecord /\ p.kind = "linked"
  BY DEF LinkedOK
<1>2. CASE q = p
  BY <1>1, <1>2 DEF Answers
<1>3. CASE q = [p EXCEPT !.large = @ + 1, !.extra = (@ + Large) % Width]
  <2>1. (p.extra + Large) % Width \in Size /\ p.large + 1 \in Nat
    BY <1>1, PoolAssumption DEF PoolRecord, Size
  <2>2. PICK extra \in Size : q = [p EXCEPT !.large = p.large + 1, !.extra = extra]
    BY <1>1, <1>3, <2>1 DEF PoolRecord
  <2> HIDE DEF q
  <2>3. /\ q \in PoolRecord /\ q.torn = p.torn /\ q.chain = p.chain
        /\ q.kind = p.kind /\ q.out = p.out /\ q.large = p.large + 1 /\ q.cores = p.cores
        /\ q.used = p.used /\ q.prev = p.prev /\ q.total = p.total /\ q.free = p.free
    BY <1>1, <2>1, <2>2 DEF PoolRecord
  <2>4. LinkedOK(q)
    BY <2>3 DEF LinkedOK, OnceEach, Counted, Reach
  <2>5. ChainSet(q) = ChainSet(p)
    BY <2>3 DEF ChainSet
  <2>6. Answers(p, q)
    BY <2>3, <2>5 DEF Answers, Stock
  <2> QED BY <2>3, <2>4, <2>6 DEF q
<1>4. CASE p.chain # <<>> /\ o = Linked!Pick(p)
  BY <1>4, PickKeeps DEF Answers, Same
<1>5. ASSUME NEW e \in Linked!Extend(p),
             o = IF e.ok THEN Linked!Pick(e.pool) ELSE [got |-> NULL, pool |-> e.pool]
      PROVE  /\ LinkedOK(q) /\ Answers(p, q)
             /\ q.kind = p.kind /\ q.prev = p.prev /\ q.large = p.large
  <2>1. /\ LinkedOK(e.pool) /\ Grows(p, e.pool)
        /\ e.ok => ~e.pool.torn /\ e.pool.chain # <<>>
    BY ExtendKeeps
  <2>2. Stock(p) \subseteq Stock(e.pool) /\ e.pool.out = p.out
    BY <1>1, <2>1 DEF Grows, Stock
  <2>3. CASE ~e.ok
    <3>1. q = e.pool
      BY <1>5, <2>3
    <3> QED BY <2>1, <2>2, <3>1 DEF Grows, Answers
  <2>4. CASE e.ok
    <3>1. q = Linked!Pick(e.pool).pool
      BY <1>5, <2>4
    <3>2. LinkedOK(q) /\ Same(e.pool, q) /\ Gives(e.pool, q)
      BY <2>1, <2>4, <3>1, PickKeeps
    <3> HIDE DEF q
    <3>3. Gives(p, q)
      BY <2>2, <3>2 DEF Gives
    <3> QED BY <2>1, <3>2, <3>3 DEF Answers, Same, Grows
  <2> QED BY <2>3, <2>4
<1> QED
  <2>1. \/ q = p \/ q = [p EXCEPT !.large = @ + 1, !.extra = (@ + Large) % Width]
        \/ p.chain # <<>> /\ o = Linked!Pick(p)
        \/ \E e \in Linked!Extend(p) :
              o = IF e.ok THEN Linked!Pick(e.pool) ELSE [got |-> NULL, pool |-> e.pool]
    BY DEF Linked!Malloc
  <2> QED BY <1>2, <1>3, <1>4, <1>5, <2>1

(* A page pool that counts a free page has one, the lowest of them.        *)
LEMMA PagedMalloc ==
    ASSUME NEW p, PagedOK(p), NEW size, NEW o \in Paged!Malloc(p, size)
    PROVE  /\ PagedOK(o.pool) /\ Answers(p, o.pool)
           /\ o.pool.kind = p.kind /\ o.pool.prev = p.prev
           /\ o.pool.large \in {p.large, p.large + 1}
<1> DEFINE q == o.pool
           page == Paged!Min(Paged!Page \ p.out)
<1>1. /\ p \in PoolRecord /\ p.kind = "paged" /\ p.chain = <<>> /\ ~p.torn
      /\ p.out \subseteq 1 .. Pages /\ p.used = Cardinality(p.out)
      /\ p.total = Pages /\ p.free + p.used = p.total /\ Pages \in Nat
      /\ p.free \in Nat /\ p.used \in Nat
  BY PoolAssumption DEF PagedOK, Paged!Page, PoolRecord, Size
<1>2. CASE q = p
  BY <1>2, <1>1 DEF Answers
<1>3. CASE q = [p EXCEPT !.large = @ + 1]
  <2>0. p.large + 1 \in Nat
    BY <1>1 DEF PoolRecord
  <2>1. /\ q \in PoolRecord /\ q.torn = p.torn /\ q.chain = p.chain
        /\ q.kind = p.kind /\ q.out = p.out /\ q.large = p.large + 1
        /\ q.used = p.used /\ q.prev = p.prev /\ q.total = p.total /\ q.free = p.free
    BY <1>1, <1>3, <2>0 DEF PoolRecord
  <2> HIDE DEF q
  <2>2. PagedOK(q)
    BY <2>1 DEF PagedOK
  <2>3. Answers(p, q)
    BY <1>1, <2>1 DEF Answers, Stock
  <2> QED BY <2>1, <2>2, <2>3 DEF q
<1>4. CASE p.free # 0 /\ q = [p EXCEPT !.out = @ \union {page}, !.used = @ + 1, !.free = @ - 1]
  <2>1. IsFiniteSet(1 .. Pages) /\ Cardinality(1 .. Pages) = Pages
    <3>1. 1 \in Int /\ Pages \in Int /\ Pages >= 0
      BY <1>1
    <3>2. IsFiniteSet(1 .. Pages) /\ Cardinality(1 .. Pages) = (IF 1 > Pages THEN 0 ELSE Pages - 1 + 1)
      BY ONLY <3>1, FS_Interval
    <3> QED BY <3>1, <3>2
  <2>2. IsFiniteSet(p.out)
    BY <1>1, <2>1, FS_Subset
  <2>3. (1 .. Pages) \ p.out # {} /\ (1 .. Pages) \ p.out \in SUBSET Nat
    <3>1. p.out # 1 .. Pages
      BY <1>1, <1>4, <2>1
    <3>2. 1 .. Pages \subseteq Nat
      BY <1>1
    <3>3. (1 .. Pages) \ p.out # {}
      BY <1>1, <3>1, Zenon
    <3> QED BY <3>2, <3>3
  <2>4. page \in (1 .. Pages) \ p.out
    <3> DEFINE S == (1 .. Pages) \ p.out
    <3>1. PICK m \in S : \A n \in S : m <= n
      BY <2>3, Least
    <3>2. page = CHOOSE x \in S : \A y \in S : x <= y
      BY DEF Paged!Min, Paged!Page
    <3> QED BY <3>1, <3>2
  <2> HIDE DEF page
  <2>5. IsFiniteSet(p.out \union {page}) /\ Cardinality(p.out \union {page}) = p.used + 1
    BY <1>1, <2>2, <2>4, FS_AddElement
  <2>6. p.used + 1 \in Size /\ p.free - 1 \in Size /\ (p.free - 1) + (p.used + 1) = p.total
    <3>1. Width \in Nat /\ Pages < Width /\ p.free # 0
      BY <1>4, PoolAssumption
    <3>2. p.free \in Nat /\ p.used \in Nat /\ Pages \in Nat /\ p.total = Pages /\ p.free + p.used = Pages
      BY <1>1
    <3> QED BY ONLY <3>1, <3>2 DEF Size
  <2>7. p.out \union {page} \in SUBSET Nat
    BY <1>1, <2>4
  <2>8. /\ q \in PoolRecord /\ q.torn = p.torn /\ q.chain = p.chain
        /\ q.kind = p.kind /\ q.out = p.out \union {page} /\ q.large = p.large
        /\ q.used = p.used + 1 /\ q.prev = p.prev /\ q.total = p.total /\ q.free = p.free - 1
    BY <1>1, <1>4, <2>6, <2>7 DEF PoolRecord
  <2> HIDE DEF q
  <2>9. PagedOK(q)
    BY <1>1, <2>4, <2>5, <2>6, <2>8 DEF PagedOK, Paged!Page
  <2>10. Gives(p, q)
    BY <1>1, <2>4, <2>8 DEF Gives, Stock, Paged!Page
  <2> QED BY <2>8, <2>9, <2>10 DEF Answers, q
<1> QED BY <1>2, <1>3, <1>4 DEF Paged!Malloc, Paged!Fallback

(* Whatever the source of the region is.                                   *)
LEMMA OutcomesKeep ==
    ASSUME NEW p, PoolOK(p), ~p.torn, NEW size, NEW o \in Outcomes(p, size)
    PROVE  /\ PoolOK(o.pool) /\ Answers(p, o.pool)
           /\ o.pool.kind = p.kind /\ o.pool.prev = p.prev
           /\ o.pool.large \in {p.large, p.large + 1}
<1>1. CASE LinkedOK(p)
  <2>1. o \in Linked!Malloc(p, size)
    BY <1>1 DEF LinkedOK, Outcomes
  <2> QED BY <1>1, <2>1, LinkedMalloc DEF PoolOK
<1>2. CASE PagedOK(p)
  <2>1. o \in Paged!Malloc(p, size)
    BY <1>2 DEF PagedOK, Outcomes
  <2> QED BY <1>2, <2>1, PagedMalloc DEF PoolOK
<1>3. CASE PlainOK(p)
  <2>1. o.pool = p \/ o.pool = [p EXCEPT !.large = @ + 1]
    BY <1>3 DEF PlainOK, Outcomes, Plain
  <2>2. CASE o.pool = p
    BY <1>3, <2>2 DEF PoolOK, Answers
  <2>3. CASE o.pool = [p EXCEPT !.large = @ + 1]
    <3> DEFINE q == o.pool
    <3>1. p \in PoolRecord /\ p.large + 1 \in Nat
      BY <1>3 DEF PlainOK, PoolRecord
    <3>2. /\ q \in PoolRecord /\ q.torn = p.torn /\ q.chain = p.chain /\ q.prev = p.prev
          /\ q.kind = p.kind /\ q.out = p.out /\ q.large = p.large + 1
      BY <2>3, <3>1 DEF PoolRecord
    <3> HIDE DEF q
    <3>3. PlainOK(q)
      BY <1>3, <3>2 DEF PlainOK
    <3>4. Answers(p, q)
      BY <3>2 DEF Answers, Stock, ChainSet
    <3> QED BY <3>2, <3>3, <3>4 DEF PoolOK, q
  <2> QED BY <2>1, <2>2, <2>3
<1> QED BY <1>1, <1>2, <1>3 DEF PoolOK

(* A block comes back to the source it is from.                            *)
LEMMA BackKeeps ==
    ASSUME NEW p, PoolOK(p), ~p.torn, NEW b \in p.out
    PROVE  LET q == IF p.kind = "linked" THEN Linked!Free(p, b) ELSE Paged!Free(p, b)
           IN  PoolOK(q) /\ Same(p, q) /\ q.out = p.out \ {b} /\ Stock(q) = Stock(p)
<1>1. CASE LinkedOK(p)
  BY <1>1, FreeKeeps DEF LinkedOK, PoolOK
<1>2. CASE PagedOK(p)
  <2> DEFINE q == Paged!Free(p, b)
  <2>1. /\ p \in PoolRecord /\ p.kind = "paged" /\ p.chain = <<>> /\ ~p.torn
        /\ p.out \subseteq 1 .. Pages /\ p.used = Cardinality(p.out)
        /\ p.total = Pages /\ p.free + p.used = p.total /\ Pages \in Nat
        /\ p.free \in Nat /\ p.used \in Nat /\ Width \in Nat /\ Pages < Width
    BY <1>2, PoolAssumption DEF PagedOK, Paged!Page, PoolRecord, Size
  <2>2. IsFiniteSet(p.out)
    <3>1. IsFiniteSet(1 .. Pages)
      BY <2>1, FS_Interval
    <3> QED BY <2>1, <3>1, FS_Subset
  <2>3. /\ Cardinality(p.out \ {b}) = p.used - 1 /\ Cardinality(p.out \ {b}) \in Nat
    BY <2>1, <2>2, FS_RemoveElement, FS_CardinalityType
  <2>4. p.used - 1 \in Size /\ p.free + 1 \in Size /\ (p.free + 1) + (p.used - 1) = p.total
    BY <2>1, <2>3 DEF Size
  <2>5. /\ q \in PoolRecord /\ q.torn = p.torn /\ q.chain = p.chain
        /\ q.kind = p.kind /\ q.out = p.out \ {b} /\ q.large = p.large
        /\ q.used = p.used - 1 /\ q.prev = p.prev /\ q.total = p.total /\ q.free = p.free + 1
    BY <2>1, <2>4 DEF Paged!Free, PoolRecord
  <2> HIDE DEF q
  <2>6. PagedOK(q)
    BY <2>1, <2>3, <2>4, <2>5 DEF PagedOK, Paged!Page
  <2>7. Stock(q) = Stock(p)
    BY <2>1, <2>5 DEF Stock, Paged!Page
  <2> QED BY <2>1, <2>5, <2>6, <2>7 DEF PoolOK, Same, q
<1>3. CASE PlainOK(p)
  BY <1>3 DEF PlainOK
<1> QED BY <1>1, <1>2, <1>3 DEF PoolOK

(* What changes nothing but blocks of the system, and what is recorded.    *)
SameBlocks(p, q) ==
    /\ q.kind = p.kind /\ q.chain = p.chain /\ q.out = p.out /\ q.cores = p.cores
    /\ q.torn = p.torn /\ q.used = p.used /\ q.free = p.free /\ q.total = p.total

LEMMA RestKeeps ==
    ASSUME NEW p, PoolOK(p), NEW q, q \in PoolRecord, SameBlocks(p, q)
    PROVE  PoolOK(q) /\ Stock(q) = Stock(p)
<1>2. /\ q \in PoolRecord /\ q.torn = p.torn /\ q.chain = p.chain
      /\ q.kind = p.kind /\ q.out = p.out /\ q.cores = p.cores
      /\ q.used = p.used /\ q.total = p.total /\ q.free = p.free
  BY DEF SameBlocks
<1>3. ChainSet(q) = ChainSet(p)
  BY <1>2 DEF ChainSet
<1>4. Stock(q) = Stock(p)
  BY <1>2, <1>3 DEF Stock
<1>5. ASSUME LinkedOK(p) PROVE PoolOK(q)
  BY <1>2, <1>5 DEF LinkedOK, OnceEach, Counted, Reach, PoolOK
<1>6. ASSUME PagedOK(p) PROVE PoolOK(q)
  BY <1>2, <1>6 DEF PagedOK, PoolOK
<1>7. ASSUME PlainOK(p) PROVE PoolOK(q)
  BY <1>2, <1>7 DEF PlainOK, PoolOK
<1>8. PoolOK(q)
  BY <1>5, <1>6, <1>7 DEF PoolOK
<1> QED BY <1>2, <1>4, <1>8

(* The feedback: the pool grows or is refused that, unless a quarter was   *)
(* collected since the use was recorded.                                   *)
LEMMA FeedbackKeeps ==
    ASSUME NEW p, LinkedOK(p), ~p.torn, NEW q \in Linked!Feedback(p)
    PROVE  /\ LinkedOK(q) /\ Grows(p, q)
           /\ p.used <= p.prev =>
                 4 * (p.prev - p.used) >= p.total \/ q.total > p.total \/ q.refused
<1>1. p.prev \in Size /\ p.used \in Size /\ p.total \in Size /\ Width \in Nat
  BY PoolAssumption DEF LinkedOK, PoolRecord
<1>2. ASSUME p.used <= p.prev PROVE (p.prev - p.used) % Width = p.prev - p.used
  <2>1. p.prev - p.used \in Size
    BY <1>1, <1>2 DEF Size
  <2> QED BY <2>1, NoWrap
<1>3. CASE 4 * ((p.prev - p.used) % Width) < p.total
  <2>1. PICK e \in Linked!Extend(p) : q = e.pool
    BY <1>3 DEF Linked!Feedback
  <2> QED BY <2>1, ExtendKeeps
<1>4. CASE ~(4 * ((p.prev - p.used) % Width) < p.total)
  <2>1. q = p
    BY <1>4 DEF Linked!Feedback
  <2>2. p.used <= p.prev => 4 * (p.prev - p.used) >= p.total
    BY <1>1, <1>2, <1>4 DEF Size
  <2>3. Grows(p, p)
    BY <1>1 DEF Grows, Size
  <2> QED BY <2>1, <2>2, <2>3
<1> QED BY <1>3, <1>4
-----------------------------------------------------------------------------
(* The inductive invariant: the pools are sound, the settings hold, the    *)
(* blocks of the system are bounded (MaxLarge), and a pool that asked for  *)
(* a collection has recorded its use then.                                 *)
Sound == DOMAIN pool = Region /\ \A r \in Region : PoolOK(pool[r])
SettingHolds == Setting \in Settings /\ SystemBlocks <= MaxLarge[Setting]
UseRecorded ==
    mode = "collect" =>
        \A r \in asked : pool[r].kind = "linked" => pool[r].prev = before[r].used

PoolsInv ==
    /\ Sound /\ SettingHolds /\ UseRecorded
    /\ mode \in {"run", "collect"} /\ asked \subseteq Collected

LEMMA Fields ==
    ASSUME NEW p, PoolOK(p)
    PROVE  /\ p \in PoolRecord /\ p.large \in Nat /\ p.prev \in Size /\ p.used \in Size
           /\ p.total \in Size /\ p.out \subseteq Nat
           /\ p.kind = "linked" => LinkedOK(p)
BY DEF PoolOK, LinkedOK, PagedOK, PlainOK, PoolRecord

LEMMA SoundConsistent == PoolsInv => Consistent
<1> SUFFICES ASSUME PoolsInv PROVE Consistent
  OBVIOUS
<1>1. Setting \in Settings /\ MaxLarge[Setting] \in Nat /\ SystemBlocks <= MaxLarge[Setting]
  BY SettingsAssumption DEF PoolsInv, SettingHolds
<1>2. \A r \in Region : pool[r].large \in Nat
  BY Fields DEF PoolsInv, Sound
<1>3. \A r \in Region : pool[r].large \in 0 .. MaxLarge[Setting]
  BY <1>1, <1>2 DEF SystemBlocks, Region, Collected
<1>4. ASSUME NEW r \in Region
      PROVE  /\ pool[r].kind \in {"plain", "linked", "paged"}
             /\ pool[r].out \union ChainSet(pool[r]) \subseteq
                   IF pool[r].kind = "paged" THEN Paged!Page ELSE 1 .. (MaxCores + 1) * BlockCount
             /\ {pool[r].used, pool[r].free, pool[r].total, pool[r].extra, pool[r].prev}
                   \subseteq 0 .. Width - 1
             /\ \A i, j \in 1 .. Len(pool[r].chain) : i # j => pool[r].chain[i] # pool[r].chain[j]
             /\ ChainSet(pool[r]) \intersect pool[r].out = {}
             /\ pool[r].kind # "plain" /\ ~pool[r].torn =>
                   /\ pool[r].used = Cardinality(pool[r].out)
                   /\ pool[r].free + pool[r].used = pool[r].total
                   /\ pool[r].kind = "linked" =>
                         pool[r].free = Len(pool[r].chain) /\ pool[r].total = pool[r].cores * BlockCount
  <2> PICK p : p = pool[r]
    OBVIOUS
  <2>1. PoolOK(p) /\ p \in PoolRecord
    BY Fields DEF PoolsInv, Sound
  <2>2. {p.used, p.free, p.total, p.extra, p.prev} \subseteq 0 .. Width - 1
    BY <2>1 DEF PoolRecord, Size
  <2>3. CASE LinkedOK(p)
    <3>1. /\ p.kind = "linked" /\ OnceEach(p) /\ (~p.torn => Counted(p)) /\ p.cores \in 0 .. MaxCores
      BY <2>3 DEF LinkedOK
    <3>2. Reach(p) \in Nat /\ Reach(p) <= (MaxCores + 1) * BlockCount
          /\ (MaxCores + 1) * BlockCount \in Nat
      <4>1. MaxCores \in 0 .. MaxCores
        BY PoolAssumption
      <4>2. (MaxCores + 1) * BlockCount \in Nat
        BY <4>1, CoresFit, PoolAssumption
      <4>3. (p.cores + 1) * BlockCount \in Nat
        BY <3>1, CoresFit, PoolAssumption
      <4> QED BY <3>1, <4>2, <4>3, CoresFit DEF Reach
    <3>3. 1 .. Reach(p) \subseteq 1 .. (MaxCores + 1) * BlockCount
      BY <3>2
    <3>4. \A v \in ChainSet(p) : v \in 1 .. Reach(p) /\ v \notin p.out
      BY <3>1 DEF OnceEach, ChainSet
    <3>5. p.out \subseteq 1 .. Reach(p)
          /\ \A i, j \in 1 .. Len(p.chain) : i # j => p.chain[i] # p.chain[j]
      BY <3>1 DEF OnceEach
    <3>6. ~p.torn => /\ p.used = Cardinality(p.out) /\ p.free + p.used = p.total
                     /\ p.free = Len(p.chain) /\ p.total = p.cores * BlockCount
      BY <3>1 DEF Counted
    <3>7. p.out \union ChainSet(p) \subseteq 1 .. (MaxCores + 1) * BlockCount
      BY <3>3, <3>4, <3>5
    <3> QED BY <2>2, <3>1, <3>4, <3>5, <3>6, <3>7
  <2>4. CASE PagedOK(p) \/ PlainOK(p)
    <3>1. p.chain = <<>> /\ Len(<<>>) = 0
      BY <2>4 DEF PagedOK, PlainOK
    <3>2. ChainSet(p) = {}
      BY <3>1 DEF ChainSet
    <3>3. \A i, j \in 1 .. Len(p.chain) : i # j => p.chain[i] # p.chain[j]
      BY <3>1
    <3> QED BY <2>2, <2>4, <3>2, <3>3 DEF PagedOK, PlainOK
  <2> QED BY <2>1, <2>3, <2>4 DEF PoolOK
<1>5. mode \in {"run", "collect"} /\ asked \subseteq Collected
  BY DEF PoolsInv
<1>6. TypeOK
  BY <1>3, <1>4, <1>5 DEF TypeOK
<1>7. EveryBlockOnce
  BY <1>4 DEF EveryBlockOnce
<1>8. CountersExact
  BY <1>4 DEF CountersExact
<1> QED BY <1>6, <1>7, <1>8 DEF Consistent

LEMMA StockBounded ==
    PoolsInv => \A r \in Region : Stock(pool[r]) \subseteq 1 .. Pages + (MaxCores + 1) * BlockCount
<1> SUFFICES ASSUME PoolsInv, NEW r \in Region
             PROVE  Stock(pool[r]) \subseteq 1 .. Pages + (MaxCores + 1) * BlockCount
  OBVIOUS
<1>1. pool[r].out \union ChainSet(pool[r]) \subseteq
         IF pool[r].kind = "paged" THEN Paged!Page ELSE 1 .. (MaxCores + 1) * BlockCount
  BY SoundConsistent DEF Consistent, TypeOK
<1>2. (MaxCores + 1) * BlockCount \in Nat /\ Pages \in Nat
  <2>1. MaxCores \in 0 .. MaxCores
    BY PoolAssumption
  <2> QED BY <2>1, CoresFit, PoolAssumption
<1>3. /\ 1 .. (MaxCores + 1) * BlockCount \subseteq 1 .. Pages + (MaxCores + 1) * BlockCount
      /\ 1 .. Pages \subseteq 1 .. Pages + (MaxCores + 1) * BlockCount
  BY <1>2
<1> QED BY <1>1, <1>3 DEF Stock, Paged!Page

LEMMA NewPoolsSound ==
    /\ PoolOK(PlainPool) /\ PlainPool.large = 0 /\ PlainPool.out = {}
    /\ PoolOK(Paged!NewPool) /\ Paged!NewPool.large = 0 /\ Paged!NewPool.out = {}
    /\ \A q \in Linked!NewPool : PoolOK(q) /\ q.large = 0 /\ q.out = {}
<1>1. /\ 0 \in Size /\ Pages \in Size /\ <<>> \in Seq(Nat) /\ Len(<<>>) = 0
      /\ 0 \in 0 .. MaxCores /\ 0 * BlockCount = 0
  BY PoolAssumption, EmptySeq DEF Size
<1>2. IsFiniteSet({}) /\ Cardinality({}) = 0
  BY FS_EmptySet
<1>3. Linked!Empty \in PoolRecord
  BY <1>1 DEF Linked!Empty, PoolRecord
<1>4. LinkedOK(Linked!Empty) /\ ~Linked!Empty.torn /\ Linked!Empty.large = 0 /\ Linked!Empty.out = {}
  BY <1>1, <1>2, <1>3 DEF Linked!Empty, LinkedOK, OnceEach, Counted, Reach
<1>5. ASSUME NEW q \in Linked!NewPool PROVE PoolOK(q) /\ q.large = 0 /\ q.out = {}
  <2>1. PICK g \in Linked!Generate(Linked!Empty) : g.ok /\ q = Linked!Count(g.pool)
    BY DEF Linked!NewPool
  <2>2. LinkedOK(q) /\ Grows(Linked!Empty, q)
    BY <1>4, <2>1, GenerateKeeps
  <2> QED BY <1>4, <2>2 DEF Grows, PoolOK
<1>6. PlainPool \in PoolRecord /\ PlainOK(PlainPool) /\ PlainPool.large = 0 /\ PlainPool.out = {}
  BY <1>1 DEF PlainPool, Linked!Empty, PoolRecord, PlainOK
<1>7. Paged!NewPool \in PoolRecord
  BY <1>1, PoolAssumption DEF Paged!NewPool, PoolRecord
<1>8. PagedOK(Paged!NewPool) /\ Paged!NewPool.large = 0 /\ Paged!NewPool.out = {}
  BY <1>1, <1>2, <1>7, PoolAssumption DEF Paged!NewPool, PagedOK
<1> QED BY <1>5, <1>6, <1>8 DEF PoolOK

LEMMA PoolsInit == Init => PoolsInv
<1> SUFFICES ASSUME Init PROVE PoolsInv
  OBVIOUS
<1>1. PICK s \in Settings :
         /\ pool \in [Region -> {PlainPool, Paged!NewPool} \union Linked!NewPool]
         /\ \A r \in Region : pool[r].kind = s[r]
  BY DEF Init
<1>2. \A r \in Region : PoolOK(pool[r]) /\ pool[r].large = 0
  BY <1>1, NewPoolsSound
<1>3. Sound
  BY <1>1, <1>2 DEF Sound
<1>4. Setting = s
  BY <1>1, SettingsAssumption DEF Setting
<1>5. SystemBlocks = 0
  BY <1>2 DEF SystemBlocks, Region, Collected
<1>6. SettingHolds
  BY <1>4, <1>5, SettingsAssumption DEF SettingHolds
<1> QED BY <1>3, <1>6 DEF Init, PoolsInv, UseRecorded

(* One region's pool is replaced by a sound one of its type.               *)
LEMMA OnePoolStep ==
    ASSUME PoolsInv, NEW r \in Region, NEW q, pool' = [pool EXCEPT ![r] = q],
           PoolOK(q), q.kind = pool[r].kind, q.prev = pool[r].prev,
           \/ q.large <= pool[r].large
           \/ q.large = pool[r].large + 1 /\ SystemBlocks < MaxLarge[Setting],
           UNCHANGED <<mode, asked, before>>
    PROVE  PoolsInv'
<1>1. /\ DOMAIN pool = Region /\ \A t \in Region : PoolOK(pool[t]) /\ pool[t].large \in Nat
      /\ SettingHolds /\ UseRecorded /\ q.large \in Nat /\ asked \subseteq Collected
      /\ mode \in {"run", "collect"}
  BY Fields DEF PoolsInv, Sound
<1>2. /\ DOMAIN pool' = Region /\ pool'[r] = q /\ \A t \in Region : t # r => pool'[t] = pool[t]
  BY <1>1
<1>3. Sound'
  BY <1>1, <1>2 DEF Sound
<1>4. \A t \in Region : pool'[t].kind = pool[t].kind /\ pool'[t].prev = pool[t].prev
  BY <1>2
<1>5. Setting' = Setting
  BY <1>4 DEF Setting
<1>6. MaxLarge[Setting] \in Nat /\ SystemBlocks \in Nat
  BY <1>1, SettingsAssumption DEF SettingHolds, SystemBlocks, Region, Collected
<1>7. SystemBlocks' <= MaxLarge[Setting]
  <2>1. /\ SystemBlocks' = pool'["INFRASTRUCTURE"].large + pool'["PRIMITIVE"].large + pool'["REFERENCE"].large
        /\ SystemBlocks = pool["INFRASTRUCTURE"].large + pool["PRIMITIVE"].large + pool["REFERENCE"].large
    BY DEF SystemBlocks
  <2>2. r \in {"INFRASTRUCTURE", "PRIMITIVE", "REFERENCE"}
        /\ SystemBlocks <= MaxLarge[Setting]
        /\ \A t \in {"INFRASTRUCTURE", "PRIMITIVE", "REFERENCE"} : pool[t].large \in Nat
    BY <1>1 DEF Region, Collected, SettingHolds
  <2>3. \A t \in {"INFRASTRUCTURE", "PRIMITIVE", "REFERENCE"} :
           pool'[t].large = IF t = r THEN q.large ELSE pool[t].large
    BY <1>2 DEF Region, Collected
  <2>4. \/ SystemBlocks' <= SystemBlocks
        \/ SystemBlocks' = SystemBlocks + 1 /\ SystemBlocks < MaxLarge[Setting]
    <3>1. CASE r = "INFRASTRUCTURE"
      BY <1>1, <2>1, <2>2, <2>3, <3>1
    <3>2. CASE r = "PRIMITIVE"
      BY <1>1, <2>1, <2>2, <2>3, <3>2
    <3>3. CASE r = "REFERENCE"
      BY <1>1, <2>1, <2>2, <2>3, <3>3
    <3> QED BY <2>2, <3>1, <3>2, <3>3
  <2>5. SystemBlocks' \in Nat
    BY <1>1, <2>1, <2>2, <2>3
  <2> QED BY <1>6, <2>2, <2>4, <2>5
<1>8. SettingHolds'
  BY <1>1, <1>5, <1>7 DEF SettingHolds
<1>9. UseRecorded'
  BY <1>1, <1>4 DEF UseRecorded, Region
<1> QED BY <1>1, <1>3, <1>8, <1>9 DEF PoolsInv

LEMMA RequestStep ==
    ASSUME PoolsInv, NEW r \in Region, NEW size, Request(r, size)
    PROVE  /\ PoolsInv'
           /\ \E q : pool' = [pool EXCEPT ![r] = q] /\ Answers(pool[r], q)
<1>1. PoolOK(pool[r]) /\ ~pool[r].torn
  BY DEF PoolsInv, Sound, Request, Torn
<1>2. PICK o \in Outcomes(pool[r], size) :
         /\ o.pool.large > pool[r].large => SystemBlocks < MaxLarge[Setting]
         /\ pool' = [pool EXCEPT ![r] = o.pool]
  BY DEF Request
<1>3. /\ PoolOK(o.pool) /\ Answers(pool[r], o.pool)
      /\ o.pool.kind = pool[r].kind /\ o.pool.prev = pool[r].prev
      /\ o.pool.large \in {pool[r].large, pool[r].large + 1}
  BY <1>1, OutcomesKeep
<1>4. pool[r].large \in Nat
  BY <1>1, Fields
<1>5. \/ o.pool.large <= pool[r].large
      \/ o.pool.large = pool[r].large + 1 /\ SystemBlocks < MaxLarge[Setting]
  BY <1>2, <1>3, <1>4
<1>6. UNCHANGED <<mode, asked, before>>
  BY DEF Request
<1>7. PoolsInv'
  BY <1>2, <1>3, <1>5, <1>6, OnePoolStep
<1> QED BY <1>2, <1>3, <1>7

LEMMA GiveBackStep ==
    ASSUME PoolsInv, NEW r \in Region, GiveBack(r)
    PROVE  /\ PoolsInv'
           /\ \E q, b : /\ pool' = [pool EXCEPT ![r] = q] /\ b \in pool[r].out
                        /\ q.out = pool[r].out \ {b} /\ Stock(q) = Stock(pool[r])
<1>1. PoolOK(pool[r]) /\ ~pool[r].torn
  BY DEF PoolsInv, Sound, GiveBack, Torn
<1>2. PICK b \in pool[r].out :
         pool' = [pool EXCEPT ![r] = IF @.kind = "linked" THEN Linked!Free(@, b) ELSE Paged!Free(@, b)]
  BY DEF GiveBack
<1>3. PICK q : q = IF pool[r].kind = "linked" THEN Linked!Free(pool[r], b) ELSE Paged!Free(pool[r], b)
  OBVIOUS
<1>4. pool' = [pool EXCEPT ![r] = q]
  BY <1>2, <1>3 DEF PoolsInv, Sound
<1>5. PoolOK(q) /\ Same(pool[r], q) /\ q.out = pool[r].out \ {b} /\ Stock(q) = Stock(pool[r])
  BY <1>1, <1>3, BackKeeps
<1>6. q.large <= pool[r].large /\ q.kind = pool[r].kind /\ q.prev = pool[r].prev
  <2>1. pool[r].large \in Nat
    BY <1>1, Fields
  <2> QED BY <1>5, <2>1 DEF Same
<1>7. UNCHANGED <<mode, asked, before>>
  BY DEF GiveBack
<1>8. PoolsInv'
  BY <1>4, <1>5, <1>6, <1>7, OnePoolStep
<1> QED BY <1>4, <1>5, <1>8

LEMMA GiveBackLargeStep ==
    ASSUME PoolsInv, NEW r \in Region, GiveBackLarge(r)
    PROVE  /\ PoolsInv'
           /\ \A s \in Region : pool'[s].out = pool[s].out /\ Stock(pool'[s]) = Stock(pool[s])
<1>1. PoolOK(pool[r]) /\ pool[r].large \in Nat /\ pool[r].prev \in Size /\ pool[r] \in PoolRecord
  BY Fields DEF PoolsInv, Sound
<1>2. pool[r].large - 1 \in Nat
  BY <1>1 DEF GiveBackLarge
<1> PICK p : p = pool[r]
  OBVIOUS
<1>3. PICK q : q = [p EXCEPT !.large = p.large - 1]
  OBVIOUS
<1>4. q \in PoolRecord /\ SameBlocks(p, q) /\ q.large = p.large - 1 /\ q.prev = p.prev
  BY <1>1, <1>2, <1>3 DEF PoolRecord, SameBlocks
<1>5. pool' = [pool EXCEPT ![r] = q]
  BY <1>3 DEF GiveBackLarge, Linked!FreeLarge, PoolsInv, Sound
<1>6. /\ PoolOK(q) /\ q.out = p.out /\ Stock(q) = Stock(p)
      /\ q.kind = p.kind /\ q.large = p.large - 1 /\ q.prev = p.prev
  BY <1>1, <1>4, RestKeeps DEF SameBlocks
<1>7. q.large <= pool[r].large /\ UNCHANGED <<mode, asked, before>>
  BY <1>1, <1>6 DEF GiveBackLarge
<1>8. PoolsInv'
  BY <1>5, <1>6, <1>7, OnePoolStep
<1> QED BY <1>5, <1>6, <1>8 DEF PoolsInv, Sound

(* All pools at once, with what they have out and in the system as before. *)
LEMMA AllPoolsStep ==
    ASSUME PoolsInv, DOMAIN pool' = Region, mode' \in {"run", "collect"}, asked' \subseteq Collected,
           \A r \in Region : PoolOK(pool'[r]) /\ pool'[r].kind = pool[r].kind
                             /\ pool'[r].large = pool[r].large,
           mode' = "collect" => \A r \in asked' : pool[r].kind = "linked" => pool'[r].prev = before'[r].used
    PROVE  PoolsInv'
<1>1. Setting' = Setting /\ Sound'
  BY DEF Setting, Sound
<1>2. SystemBlocks' = SystemBlocks
  BY DEF SystemBlocks, Region, Collected
<1>3. SettingHolds'
  BY <1>1, <1>2 DEF PoolsInv, SettingHolds
<1>4. UseRecorded'
  BY DEF UseRecorded, Region
<1> QED BY <1>1, <1>3, <1>4 DEF PoolsInv

LEMMA BeginStep ==
    ASSUME PoolsInv, AskForCollection
    PROVE  /\ PoolsInv'
           /\ \A r \in Region : pool'[r].out = pool[r].out /\ Stock(pool'[r]) = Stock(pool[r])
<1>1. /\ mode' = "collect" /\ asked' = Asked /\ Asked \subseteq Collected
      /\ pool' = [r \in Region |-> IF r \in Asked /\ pool[r].kind = "linked"
                                   THEN Linked!Lack(pool[r]) ELSE pool[r]]
      /\ before' = [r \in Region |-> [used |-> pool[r].used]]
  BY DEF AskForCollection, Asked, Collected
<1>2. \A r \in Asked : Lacks(pool[r]) /\ r \in Region
  BY <1>1 DEF Asked, Region
<1>3. ASSUME NEW r \in Region
      PROVE  /\ PoolOK(pool'[r]) /\ pool'[r].kind = pool[r].kind /\ pool'[r].large = pool[r].large
             /\ pool'[r].out = pool[r].out /\ Stock(pool'[r]) = Stock(pool[r])
             /\ r \in Asked /\ pool[r].kind = "linked" => pool'[r].prev = pool[r].used
  <2> PICK p : p = pool[r]
    OBVIOUS
  <2>1. PoolOK(p) /\ p \in PoolRecord /\ p.large \in Nat /\ p.used \in Size
    BY Fields DEF PoolsInv, Sound
  <2>2. CASE r \in Asked /\ p.kind = "linked"
    <3>1. Linked!Lacks(p)
      BY <1>2, <2>2 DEF Lacks
    <3>2. pool'[r] = [p EXCEPT !.prev = p.used]
      BY <1>1, <2>2, <3>1 DEF Linked!Lack
    <3>3. PICK q : q = [p EXCEPT !.prev = p.used]
      OBVIOUS
    <3>4. q \in PoolRecord /\ SameBlocks(p, q) /\ q.large = p.large /\ q.prev = p.used
      BY <2>1, <3>3 DEF PoolRecord, SameBlocks
    <3>5. PoolOK(q) /\ Stock(q) = Stock(p)
      BY <2>1, <3>4, RestKeeps
    <3> QED BY <3>2, <3>3, <3>4, <3>5 DEF SameBlocks
  <2>3. CASE ~(r \in Asked /\ p.kind = "linked")
    BY <1>1, <2>1, <2>3
  <2> QED BY <2>2, <2>3
<1>4. DOMAIN pool' = Region
  BY <1>1
<1>5. \A r \in asked' : pool[r].kind = "linked" => pool'[r].prev = before'[r].used
  BY <1>1, <1>2, <1>3
<1>6. PoolsInv'
  BY <1>1, <1>3, <1>4, <1>5, AllPoolsStep
<1> QED BY <1>3, <1>6

LEMMA EndStep ==
    ASSUME PoolsInv, EndCollection
    PROVE  /\ PoolsInv'
           /\ \A r \in Region : pool'[r].out = pool[r].out /\ Stock(pool[r]) \subseteq Stock(pool'[r])
           /\ \A r \in asked :
                 pool[r].kind = "linked" /\ pool[r].used <= before[r].used => Satisfied(r)
<1>1. PICK fed \in [Collected -> UNION {Linked!Feedback(pool[r]) : r \in Collected}
                                 \union {pool[r] : r \in Collected}] :
        /\ \A r \in Collected :
              fed[r] \in IF pool[r].kind = "linked" THEN Linked!Feedback(pool[r]) ELSE {pool[r]}
        /\ pool' = [r \in Region |-> IF r \in Collected THEN fed[r] ELSE pool[r]]
  BY DEF EndCollection
<1>2. mode = "collect" /\ mode' = "run" /\ asked' = {} /\ asked \subseteq Collected
      /\ \A r \in Region : PoolOK(pool[r]) /\ ~pool[r].torn
  BY DEF EndCollection, Torn, PoolsInv, Sound
<1>3. ASSUME NEW r \in Region
      PROVE  /\ PoolOK(pool'[r]) /\ pool'[r].kind = pool[r].kind /\ pool'[r].large = pool[r].large
             /\ pool'[r].out = pool[r].out /\ Stock(pool[r]) \subseteq Stock(pool'[r])
             /\ r \in Collected /\ pool[r].kind = "linked" /\ pool[r].used <= pool[r].prev =>
                   \/ 4 * (pool[r].prev - pool[r].used) >= pool[r].total
                   \/ pool'[r].total > pool[r].total \/ pool'[r].refused
  <2>1. CASE r \in Collected /\ pool[r].kind = "linked"
    <3>1. pool'[r] \in Linked!Feedback(pool[r]) /\ LinkedOK(pool[r])
      BY <1>1, <1>2, <2>1, Fields DEF Region
    <3>2. LinkedOK(pool'[r]) /\ Grows(pool[r], pool'[r])
      BY <1>2, <3>1, FeedbackKeeps
    <3>3. pool[r].used <= pool[r].prev =>
             \/ 4 * (pool[r].prev - pool[r].used) >= pool[r].total
             \/ pool'[r].total > pool[r].total \/ pool'[r].refused
      BY <1>2, <3>1, FeedbackKeeps
    <3> QED BY <2>1, <3>2, <3>3 DEF Grows, Stock, PoolOK
  <2>2. CASE ~(r \in Collected /\ pool[r].kind = "linked")
    <3>1. pool'[r] = pool[r]
      BY <1>1, <2>2 DEF Region
    <3> QED BY <1>2, <2>2, <3>1
  <2> QED BY <2>1, <2>2
<1>4. DOMAIN pool' = Region
  BY <1>1
<1>5. PoolsInv'
  BY <1>2, <1>3, <1>4, AllPoolsStep
<1>6. ASSUME NEW r \in asked, pool[r].kind = "linked", pool[r].used <= before[r].used
      PROVE  Satisfied(r)
  <2>1. r \in Region /\ r \in Collected /\ pool[r].prev = before[r].used
    BY <1>2, <1>6 DEF PoolsInv, UseRecorded, Region
  <2> QED BY <1>3, <1>6, <2>1 DEF Satisfied
<1> QED BY <1>3, <1>5, <1>6
-----------------------------------------------------------------------------
LEMMA PoolsStep == PoolsInv /\ [Next]_vars => PoolsInv'
<1> SUFFICES ASSUME PoolsInv, [Next]_vars PROVE PoolsInv'
  OBVIOUS
<1>1. CASE AskForCollection
  BY <1>1, BeginStep
<1>2. CASE EndCollection
  BY <1>2, EndStep
<1>3. ASSUME NEW r \in Region, NEW size, Request(r, size) PROVE PoolsInv'
  BY <1>3, RequestStep
<1>4. ASSUME NEW r \in Region, GiveBack(r) PROVE PoolsInv'
  BY <1>4, GiveBackStep
<1>5. ASSUME NEW r \in Region, GiveBackLarge(r) PROVE PoolsInv'
  BY <1>5, GiveBackLargeStep
<1>6. CASE UNCHANGED vars
  BY <1>6 DEF vars, PoolsInv, Sound, SettingHolds, Setting, SystemBlocks, UseRecorded
<1> QED BY <1>1, <1>2, <1>3, <1>4, <1>5, <1>6 DEF Next

LEMMA PoolsAlways == Spec => []PoolsInv
BY PoolsInit, PoolsStep, PTL DEF Spec

(* However requests, frees and growth that fails follow each other, no     *)
(* block is in the chain twice or with two holders, and the counters that  *)
(* decide on growth and collections are exact (misc/linked_pool.c,         *)
(* misc/page_pool.c): no size_t wraps.                                     *)
THEOREM StaysConsistent == Spec => []Consistent
BY PoolsAlways, SoundConsistent, PTL

(* A collection that a linked pool asked for leaves it with room, or the   *)
(* system had none (linked_mem_pool_lack, linked_mem_pool_feedback),       *)
(* whatever other threads requested and gave back meanwhile.               *)
THEOREM CollectionsHelp == Spec => CollectionHelps
<1> DEFINE Step ==
              (mode = "collect" /\ mode' = "run") =>
                 (\A r \in asked :
                    (pool[r].kind = "linked" /\ pool[r].used <= before[r].used) => Satisfied(r))
<1>1. PoolsInv /\ [Next]_vars => [Step]_vars
  <2> SUFFICES ASSUME PoolsInv, Next PROVE Step
    OBVIOUS
  <2>1. CASE EndCollection
    BY <2>1, EndStep
  <2>2. CASE ~EndCollection
    <3>1. AskForCollection \/ mode' = mode
      BY <2>2 DEF Next, Request, GiveBack, GiveBackLarge
    <3> QED BY <3>1 DEF AskForCollection
  <2> QED BY <2>1, <2>2
<1> QED BY <1>1, PoolsAlways, PTL DEF Spec, CollectionHelps

(* The abstract state of a region.                                         *)
LEMMA AbstractInit == Init => Promise!Init
<1> SUFFICES ASSUME Init PROVE Promise!Init
  OBVIOUS
<1>1. PoolsInv /\ \A r \in Region : pool[r].out = {}
  <2>1. \A r \in Region : pool[r] \in {PlainPool, Paged!NewPool} \union Linked!NewPool
    BY DEF Init
  <2> QED BY <2>1, PoolsInit, NewPoolsSound
<1>2. \A r \in Region : Stock(pool[r]) \subseteq 1 .. Pages + (MaxCores + 1) * BlockCount
  BY <1>1, StockBounded
<1> QED BY <1>1, <1>2 DEF Promise!Init, Stock

(* A step that changes one region's blocks is a step of its allocator, and *)
(* one that changes no holder lets the stock grow or does nothing.         *)
held == [r \in Region |-> pool[r].out]
stock == [r \in Region |-> pool[r].out \union
              IF pool[r].kind = "paged" THEN Paged!Page ELSE ChainSet(pool[r])]
abstract == <<held, stock>>

LEMMA AbstractStep == PoolsInv /\ [Next]_vars => [Promise!Next]_abstract
<1> SUFFICES ASSUME PoolsInv, [Next]_vars PROVE [Promise!Next]_abstract
  OBVIOUS
<1>1. PoolsInv'
  BY PoolsStep
<1>2. /\ DOMAIN pool = Region /\ DOMAIN pool' = Region
      /\ \A r \in Region : stock[r] = Stock(pool[r]) /\ stock'[r] = Stock(pool'[r])
                           /\ held[r] = pool[r].out /\ held'[r] = pool'[r].out
  BY <1>1 DEF PoolsInv, Sound, Stock, held, stock
<1>3. \A r \in Region : stock'[r] \subseteq 1 .. Pages + (MaxCores + 1) * BlockCount
  <2>1. \A r \in Region : Stock(pool'[r]) \subseteq 1 .. Pages + (MaxCores + 1) * BlockCount
    <3>1. (PoolsInv => \A r \in Region :
              Stock(pool[r]) \subseteq 1 .. Pages + (MaxCores + 1) * BlockCount)'
      BY StockBounded, PTL
    <3> QED BY <1>1, <3>1
  <2> QED BY <1>2, <2>1
<1>4. ASSUME \A r \in Region : pool'[r].out = pool[r].out /\ Stock(pool[r]) \subseteq Stock(pool'[r])
      PROVE  Promise!Grow
  <2>1. held' = held
    BY <1>4 DEF held
  <2>2. stock' \in [Region -> SUBSET (1 .. Pages + (MaxCores + 1) * BlockCount)]
    BY <1>3 DEF stock
  <2>3. \A r \in Region : stock[r] \subseteq stock'[r]
    BY <1>2, <1>4
  <2> QED BY <2>1, <2>2, <2>3 DEF Promise!Grow, held, stock
<1>5. ASSUME NEW r \in Region, NEW size, Request(r, size) PROVE Promise!Next
  <2>1. PICK q : pool' = [pool EXCEPT ![r] = q] /\ Answers(pool[r], q)
    BY <1>5, RequestStep
  <2>2. pool'[r] = q /\ \A t \in Region : t # r => pool'[t] = pool[t]
    BY <1>2, <2>1
  <2>3. CASE Stock(pool[r]) \subseteq Stock(q) /\ q.out = pool[r].out
    BY <1>4, <2>2, <2>3 DEF Promise!Next
  <2>4. CASE Gives(pool[r], q)
    <3>1. PICK b \in Stock(q) \ pool[r].out : q.out = pool[r].out \union {b}
      BY <2>4 DEF Gives
    <3>2. stock[r] \subseteq stock'[r] /\ b \in stock'[r] \ held[r]
      BY <1>2, <2>2, <2>4, <3>1 DEF Gives
    <3>3. held' = [held EXCEPT ![r] = @ \union {b}]
      BY <2>2, <3>1 DEF held
    <3>4. stock' = [stock EXCEPT ![r] = stock'[r]]
      BY <1>2, <2>2 DEF stock
    <3>5. Promise!Give(r)
      BY <3>2, <3>3, <3>4 DEF Promise!Give, held, stock
    <3> QED BY <3>5 DEF Promise!Next
  <2> QED BY <2>1, <2>3, <2>4 DEF Answers
<1>6. ASSUME NEW r \in Region, GiveBack(r) PROVE Promise!Next
  <2>1. PICK q, b : /\ pool' = [pool EXCEPT ![r] = q] /\ b \in pool[r].out
                    /\ q.out = pool[r].out \ {b} /\ Stock(q) = Stock(pool[r])
    BY <1>6, GiveBackStep
  <2>2. pool'[r] = q /\ \A t \in Region : t # r => pool'[t] = pool[t]
    BY <1>2, <2>1
  <2>3. held' = [held EXCEPT ![r] = @ \ {b}] /\ b \in held[r]
    <3>1. pool'[r].out = pool[r].out \ {b} /\ b \in pool[r].out
      BY <2>1, <2>2
    <3>2. held' = [held EXCEPT ![r] = @ \ {b}]
      BY <2>2, <3>1 DEF held
    <3> QED BY <3>1, <3>2 DEF held
  <2>4. stock' = stock
    <3>1. \A t \in Region : stock'[t] = stock[t]
      BY <1>2, <2>1, <2>2
    <3> QED BY <3>1 DEF stock
  <2>5. Promise!TakeBack(r)
    BY <2>3, <2>4 DEF Promise!TakeBack, held, stock
  <2> QED BY <2>5 DEF Promise!Next
<1>7. ASSUME NEW r \in Region, GiveBackLarge(r) PROVE Promise!Next
  BY <1>4, <1>7, GiveBackLargeStep DEF Promise!Next
<1>8. CASE AskForCollection
  BY <1>4, <1>8, BeginStep DEF Promise!Next
<1>9. CASE EndCollection
  BY <1>4, <1>9, EndStep DEF Promise!Next
<1>10. CASE UNCHANGED vars
  BY <1>10 DEF vars, abstract, held, stock, ChainSet
<1> QED BY <1>5, <1>6, <1>7, <1>8, <1>9, <1>10 DEF Next

(* Every region's source gives a block that nobody holds, from the memory  *)
(* there is, and takes back what it gave (Allocator.tla).                  *)
THEOREM KeepsPromise == Spec => ImplementsAllocator
BY AbstractInit, AbstractStep, PoolsAlways, PTL DEF Spec, ImplementsAllocator, Promise!Spec, abstract, held, stock
=============================================================================
