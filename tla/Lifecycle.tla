----------------------------- MODULE Lifecycle ------------------------------
(***************************************************************************)
(* The life of a virtual machine (vm_run of vm/vm.c, virtual_machine_new   *)
(* and virtual_machine_destroy of vm/vm_infrastructure.c): its parts are   *)
(* made, modules are loaded, their functions run one after the other and   *)
(* the parts are destroyed in an order that the objects depend on which    *)
(* the functions left behind.  Of a function only what outlives it or runs *)
(* during the destruction is modelled: shared libraries, raw objects that  *)
(* hold a payload of a library, instances of classes with destructors.     *)
(***************************************************************************)
EXTENDS ModuleLoader, TLC

CONSTANTS
    Programs,     (* the directories a run starts from *)
    Libraries, Instances, Raws, NULL,
    MaxMethods    (* bound: the methods of a class *)

Functions == {"predefined", "init", "autorun", "main"}

(* Objects and places are told apart; a directory has finitely many files, *)
(* which list what they import; of what a file exports only the functions  *)
(* that the machine looks up itself count; a method names the module its   *)
(* function is in.                                                         *)
ASSUME LifecycleAssumption ==
    /\ Instances \intersect (Raws \union {"none", "thread", "module", "global", "gone"}) = {}
    /\ NULL \notin Libraries
    /\ \A p \in Programs :
        /\ IsFiniteSet(p.files)
        /\ \A f \in p.files : p.imports[f] \in Seq(ToSet(p.imports[f]))
        /\ \A f \in p.files : p.exports[f] \subseteq Functions
        /\ \A m \in p.methods : m[1] # NULL

VARIABLES
    program,      (* the directory, the main file and the settings *)
    stage,        (* create, load, init, autorun, main, collect, destroy, ended *)
    alive,        (* the parts that exist *)
    todo,         (* the parts to make, or to destroy, in order *)
    queue, modules,
    cursor,       (* the module whose functions come next, and which of them *)
    fn,           (* the function that runs, or NULL *)
    ran,          (* history: which functions of which modules have run *)
    failed,       (* the run did not end well *)
    occurred,     (* an error is in the error rail *)
    open,         (* the libraries that are loaded *)
    types,        (* the types of data *)
    class,        (* per instance: its inner part, its type (an index) and what *)
                  (* its destructor did *)
    payload,      (* per raw object: the library whose function releases it *)
    place,        (* per object: where its shell is *)
    waiting,      (* the instances whose destructor is a thread *)
    lost,         (* those that left the object table, but were not freed *)
    released,     (* history: per raw object, how often its payload was *)
    stale         (* history: what was used while it did not exist *)

loading == <<queue, modules>>
running == <<cursor, fn, ran>>
objects == <<class, payload, place, waiting, lost, released>>
vars == <<program, stage, alive, todo, loading, running, failed, occurred,
          open, types, objects, stale>>

Objects == Instances \union Raws

(* The parts in the order in which they are made.  builtin_types are the   *)
(* variables that hold the types, in a module of their own.                *)
MakingOrder ==
    <<"gc_stub", "resource", "modules", "shared_libraries", "threads",
      "globals", "builtins", "builtin_types", "data_types", "events",
      "mutexes", "semaphores", "debugger">>

Part == ToSet(MakingOrder)

(* Memory of these parts is of the pools; of the others of the system. *)
Pooled == {"modules", "threads", "globals", "builtins", "builtin_types",
           "events", "mutexes", "semaphores"}

Needed(part) == IF part \in Pooled THEN {"resource"} ELSE {}

(* The variables of modules and the global ones hold objects. *)
Places == {"module", "global"}

(* Mutant: the values of the global variables are left. *)
PlaceOfLocal(part) ==
    IF part = "threads" THEN {"thread"}
    ELSE IF part = "modules" THEN {"module"} ELSE {}

PlaceOf(part) ==
    IF part = "threads" THEN {"thread"}
    ELSE IF part = "modules" THEN {"module"}
    ELSE IF part = "globals" THEN {"global"} ELSE {}

(* These parts and libraries are used now. *)
Use(things) == stale' = stale \union (things \ (alive \union open))

-----------------------------------------------------------------------------
(* The types of data of a virtual machine: the classes that CLSTYPEREG     *)
(* registers with the methods that CLSMADD, CLSCTORADD and CLSDTORADD add, *)
(* and the types of the libraries (multiple_stub_data_register of          *)
(* core/multiple.c) with their callbacks.                                  *)

NewType(n, native) ==
    [name |-> n, native |-> native, methods |-> <<>>, constructor |-> NULL,
     destructor |-> NULL, destroy |-> NULL]

(* The first of that name, 0 without one. *)
FindType(list, n) ==
    LET found == {k \in DOMAIN list : list[k].name = n}
    IN IF found = {} THEN 0 ELSE Min(found)

(* CLSTYPEREG, an error for a name that is there. *)
RegisterClass(list, n) == Append(list, NewType(n, FALSE))

(* multiple_stub_data_register does not look whether the name is there. *)
RegisterData(list, n) == Append(list, NewType(n, TRUE))

(* multiple_stub_data_callback_destroy_set, on the first of that name. *)
SetDestroy(list, n, func) ==
    IF FindType(list, n) = 0 THEN list
    ELSE [list EXCEPT ![FindType(list, n)].destroy = func]

(* virtual_machine_data_type_method_list_append: all methods stay in the   *)
(* list, constructor and destructor are the last ones of their kind.       *)
AddTo(type, m, def, kind) ==
    [type EXCEPT !.methods = Append(@, [name |-> m, def |-> def]),
                 !.constructor = IF kind = "constructor" THEN def ELSE @,
                 !.destructor = IF kind = "destructor" THEN def ELSE @]

(* virtual_machine_data_type_list_method_add_with_configure. *)
AddMethod(list, n, m, def, kind) ==
    LET k == FindType(list, n) IN [list EXCEPT ![k] = AddTo(@, m, def, kind)]

-----------------------------------------------------------------------------
(* The virtual machine is made. *)

Init ==
    /\ program \in Programs
    /\ stage = "create"
    /\ alive = {}
    /\ todo = MakingOrder
    /\ queue = <<>> /\ modules = <<>>
    /\ cursor = [at |-> 1, next |-> "predefined"] /\ fn = NULL /\ ran = <<>>
    /\ failed = FALSE /\ occurred = FALSE
    /\ open = {}
    /\ types = <<>>
    /\ payload = [r \in Raws |-> NULL]
    /\ class = [i \in Instances |-> [inner |-> FALSE, type |-> 0, destructing |-> FALSE, destructed |-> FALSE]]
    /\ place = [o \in Objects |-> "none"]
    /\ waiting = {} /\ lost = {}
    /\ released = [r \in Raws |-> 0]
    /\ stale = {}

MakePart ==
    /\ stage = "create" /\ todo # <<>>
    /\ alive' = alive \union {Head(todo)}
    /\ modules' = IF Head(todo) = "builtin_types" THEN <<BlankModule>> ELSE modules
    /\ todo' = Tail(todo)
    /\ Use(Needed(Head(todo)))
    /\ UNCHANGED <<program, stage, queue, running, failed, occurred, open, types, objects>>

(* virtual_machine_initialize_builtin_variables: a refused type object     *)
(* leaves ret 0, so the machine goes on without the remaining types.       *)
LeaveTypesOut ==
    /\ stage = "create" /\ todo # <<>> /\ Head(todo) = "builtin_types"
    /\ modules' = <<BlankModule>>
    /\ todo' = Tail(todo)
    /\ UNCHANGED <<program, stage, alive, queue, running, failed, occurred,
                   open, types, objects, stale>>

(* Mutant: the lists that were added last are forgotten. *)
UndoForgets ==
    <<"threads", "globals", "builtins", "events", "shared_libraries",
      "modules", "data_types", "resource", "debugger">>

(* What the failing constructor destroys, in its order. *)
UndoOrder ==
    <<"threads", "globals", "builtins", "events", "mutexes", "semaphores",
      "shared_libraries", "modules", "data_types", "resource", "debugger">>

(* What destroying the parts of s one by one needs and no longer has. *)
Missing(parts, s) ==
    UNION {Needed(s[i]) \ (parts \ {s[j] : j \in 1..(i - 1)}) :
              i \in {k \in DOMAIN s : s[k] \in parts}}

(* Memory is refused: vm_run ends at once. *)
MakeNothing ==
    /\ stage = "create" /\ todo # <<>>
    /\ alive' = alive \ (ToSet(UndoOrder) \union {"builtin_types"})
    /\ stale' = stale \union Missing(alive, UndoOrder)
    /\ stage' = "ended" /\ failed' = TRUE
    /\ modules' = <<>>
    /\ UNCHANGED <<program, todo, queue, running, occurred, open, types, objects>>

-----------------------------------------------------------------------------
(* Modules are loaded. *)

Fail(inRail) ==
    /\ stage' = "collect" /\ failed' = TRUE /\ fn' = NULL
    /\ occurred' = inRail

(* virtual_machine_load_ir: a module that cannot be loaded is destroyed. *)
LoadFile(f, q) ==
    /\ IF Loadable(program, f)
       THEN /\ queue' = QueueAfter(program, q, f)
            /\ modules' = Append(modules, NewModule(program, f, Len(modules)))
            /\ stage' = "load"
            /\ UNCHANGED <<failed, fn, occurred>>
       ELSE Fail(FALSE) /\ UNCHANGED loading
    /\ UNCHANGED <<program, alive, todo, cursor, ran, open, types, objects, stale>>

LoadMain ==
    /\ stage = "create" /\ todo = <<>>
    /\ LoadFile(program.main, queue)

LoadNext ==
    /\ stage = "load" /\ Unloaded(queue) # {}
    /\ LET i == Min(Unloaded(queue))
       IN LoadFile(queue[i].name, [queue EXCEPT ![i].loaded = TRUE])

AllLoaded ==
    /\ stage = "load" /\ Unloaded(queue) = {}
    /\ stage' = "init"
    /\ UNCHANGED <<program, alive, todo, loading, running, failed, occurred,
                   open, types, objects, stale>>

-----------------------------------------------------------------------------
(* The functions of the modules run. *)

Current == modules[cursor.at]

(* The next function to look up in the pass over __predefined__, __init__. *)
AfterInit(c) ==
    IF c.next = "predefined" THEN [c EXCEPT !.next = "init"]
    ELSE [at |-> c.at + 1, next |-> "predefined"]

Advance ==
    cursor' = IF stage = "init" THEN AfterInit(cursor)
              ELSE [cursor EXCEPT !.at = @ + 1]

InPass == stage \in {"init", "autorun"} /\ fn = NULL /\ cursor.at <= Len(modules)

(* The thread list is made of one thread for the function. *)
RunFunction ==
    /\ InPass /\ cursor.next \in Current.exports
    /\ fn' = cursor.next
    /\ ran' = Append(ran, <<cursor.next, cursor.at>>)
    /\ Advance
    /\ Use({"threads", "modules"})
    /\ UNCHANGED <<program, stage, alive, todo, loading, failed, occurred, open, types, objects>>

PassOver ==
    /\ InPass /\ cursor.next \notin Current.exports
    /\ Advance
    /\ UNCHANGED <<program, stage, alive, todo, loading, fn, ran, failed,
                   occurred, open, types, objects, stale>>

EndOfPass ==
    /\ stage \in {"init", "autorun"} /\ fn = NULL /\ cursor.at > Len(modules)
    /\ IF stage = "init"
       THEN stage' = "autorun" /\ cursor' = [at |-> 1, next |-> "autorun"]
       ELSE stage' = "main" /\ cursor' = [at |-> 2, next |-> "main"]
    /\ UNCHANGED <<program, alive, todo, loading, fn, ran, failed, occurred,
                   open, types, objects, stale>>

(* The main module is the one after the blank module.  Without main its    *)
(* autorun function will do.                                               *)
RunMain ==
    /\ stage = "main" /\ fn = NULL /\ cursor.next = "main"
    /\ IF "main" \in Current.exports
       THEN /\ fn' = "main" /\ ran' = Append(ran, <<"main", cursor.at>>)
            /\ cursor' = [cursor EXCEPT !.next = "nothing"]
            /\ UNCHANGED <<stage, failed, occurred>>
       ELSE IF "autorun" \in Current.exports
            THEN /\ stage' = "collect" /\ cursor' = [cursor EXCEPT !.next = "nothing"]
                 /\ UNCHANGED <<fn, ran, failed, occurred>>
            ELSE Fail(TRUE) /\ UNCHANGED <<cursor, ran>>
    /\ UNCHANGED <<program, alive, todo, loading, open, types, objects, stale>>

EndOfMain ==
    /\ stage = "main" /\ fn = NULL /\ cursor.next = "nothing"
    /\ stage' = "collect"
    /\ UNCHANGED <<program, alive, todo, loading, running, failed, occurred,
                   open, types, objects, stale>>

-----------------------------------------------------------------------------
(* What a function, or a thread it has made, does. *)

InBody == fn # NULL
Unmoved == UNCHANGED <<program, stage, alive, todo, loading, running, failed, occurred>>

(* DLCALL: a library is loaded at its first call.  It registers its type   *)
(* of data then, with the function that releases a payload.                *)
OpenLibrary(l) ==
    /\ InBody /\ l \in DOMAIN program.data \ open
    /\ open' = open \union {l}
    /\ types' = SetDestroy(RegisterData(types, program.data[l]), program.data[l], l)
    /\ Use({"shared_libraries", "data_types"})
    /\ Unmoved /\ UNCHANGED objects

(* A library returns a raw object (multiple_stub_return_raw): the callbacks *)
(* are copied from the first type of that name.                            *)
MakeRaw(r, l) ==
    /\ InBody /\ r \in program.objects /\ l \in open /\ place[r] = "none"
    /\ place' = [place EXCEPT ![r] = "thread"]
    /\ payload' = [payload EXCEPT ![r] = types[FindType(types, program.data[l])].destroy]
    /\ Use({"data_types", "resource"})
    /\ Unmoved /\ UNCHANGED <<open, types, class, waiting, lost, released>>

(* CLSTYPEREG, and CLSDTORADD or CLSMADD for a class that is there.  The   *)
(* function that a method names is in the module that it names.            *)
CLSTYPEREG(c) ==
    /\ InBody /\ c \in program.classes
    /\ IF FindType(types, c) = 0
       THEN types' = RegisterClass(types, c) /\ UNCHANGED <<stage, failed, fn, occurred>>
       ELSE Fail(TRUE) /\ UNCHANGED types
    /\ Use({"data_types"})
    /\ UNCHANGED <<program, alive, todo, loading, cursor, ran, open, objects>>

CLSMADD(c, def, kind) ==
    /\ InBody /\ c \in program.classes
    /\ IF FindType(types, c) # 0
       THEN /\ Len(types[FindType(types, c)].methods) < MaxMethods
            /\ types' = AddMethod(types, c, "method", def, kind)
            /\ UNCHANGED <<stage, failed, fn, occurred>>
       ELSE Fail(TRUE) /\ UNCHANGED types
    /\ Use({"data_types"})
    /\ UNCHANGED <<program, alive, todo, loading, cursor, ran, open, objects>>

(* CLSINSTMK, of the first type of that name: the inner part is registered *)
(* with the collector.                                                     *)
CLSINSTMK(i, c) ==
    /\ InBody /\ i \in program.objects /\ place[i] = "none" /\ c \in program.classes
    /\ IF FindType(types, c) # 0
       THEN /\ place' = [place EXCEPT ![i] = "thread"]
            /\ class' = [class EXCEPT ![i].inner = TRUE, ![i].type = FindType(types, c)]
            /\ UNCHANGED <<stage, failed, fn, occurred>>
       ELSE Fail(TRUE) /\ UNCHANGED <<place, class>>
    /\ Use({"data_types", "resource", "gc_stub"})
    /\ UNCHANGED <<program, alive, todo, loading, cursor, ran, open, types,
                   payload, waiting, lost, released>>

(* A value moves to a variable of a module or a global one. *)
MoveTo(o, where) ==
    /\ InBody /\ place[o] = "thread" /\ where \in Places
    /\ place' = [place EXCEPT ![o] = where]
    /\ UNCHANGED <<open, types, class, payload, waiting, lost, released, stale>> /\ Unmoved

(* virtual_machine_object_destroy of objects os: payloads are released by  *)
(* the function of their library, shells of instances are just freed.      *)
(* A raw object without such a function stays as it is.                    *)
DestroyShells(os) ==
    /\ place' = [o \in Objects |-> IF o \in os THEN "gone" ELSE place[o]]
    /\ released' = [r \in Raws |->
                       released[r] + (IF r \in os /\ payload[r] # NULL THEN 1 ELSE 0)]
    /\ UNCHANGED payload

UsedBy(os) ==
    ({payload[r] : r \in os \intersect Raws} \ {NULL})
        \union (IF os = {} THEN {} ELSE {"resource"})

At(where) == {o \in Objects : place[o] \in where}

(* POP, or another value in the place of this one. *)
DropObject(o) ==
    /\ InBody /\ place[o] \in Places \union {"thread"}
    /\ DestroyShells({o}) /\ Use(UsedBy({o}))
    /\ Unmoved /\ UNCHANGED <<open, types, class, waiting, lost>>

(* The value that CLSPSET replaces (the property is in the list). *)
Replaced(i) == At({i})

(* CLSPSET: a raw object becomes the value of a property of an instance    *)
(* that a thread can reach.                                                *)
CLSPSET(r, i) ==
    /\ InBody /\ place[r] = "thread" /\ place[i] = "thread"
    /\ place' = [o \in Objects |-> IF o = r THEN i
                                   ELSE IF o \in Replaced(i) THEN "gone" ELSE place[o]]
    /\ released' = [x \in Raws |->
                       released[x] + (IF x \in Replaced(i) /\ payload[x] # NULL THEN 1 ELSE 0)]
    /\ Use(UsedBy(Replaced(i)))
    /\ Unmoved /\ UNCHANGED <<open, types, class, payload, waiting, lost>>

(* The thread of a destructor has it as `this': CLSDTOR confirms, or is    *)
(* forgotten by the program.                                               *)
RunDestructor(i, confirms) ==
    /\ InBody /\ i \in waiting
    /\ waiting' = waiting \ {i}
    /\ class' = [class EXCEPT ![i].destructed = confirms]
    /\ Unmoved /\ UNCHANGED <<open, types, payload, place, lost, released, stale>>

-----------------------------------------------------------------------------
(* Collections: virtual_machine_object_class_internal_destroy. *)

Live == {i \in Instances : class[i].inner}
Registered == Live \ lost
Pending(i) == class[i].destructing /\ ~ class[i].destructed

(* Mutant: a destructor that ended without CLSDTOR is started again. *)
ToDestructAgain(i) ==
    types[class[i].type].destructor # NULL /\ ~ class[i].destructed

ToDestruct(i) ==
    types[class[i].type].destructor # NULL /\ ~ class[i].destructed /\ ~ Pending(i)

(* The module list is NULL once it is destroyed: no error is raised then.  *)
Found(i) == FirstNamed(modules, types[class[i].type].destructor) # 0
Begun(is) == {i \in is : ToDestruct(i) /\ modules # <<>> /\ Found(i)}
NotFound(is) == {i \in is : ToDestruct(i) /\ modules # <<>> /\ ~ Found(i)}
Freed(is) == {i \in is : ~ ToDestruct(i) /\ ~ Pending(i)}

(* The collectors of is run, after the shells os were destroyed; things    *)
(* are used for it.                                                        *)
CallCollectors(is, os, things) ==
    LET begun == Begun(is)
        dying == os \union At(Freed(is))
    IN /\ class' = [i \in Instances |->
                       [class[i] EXCEPT !.inner = @ /\ i \notin Freed(is),
                                        !.destructing = @ \/ i \in begun]]
       /\ DestroyShells(dying)
       /\ Use(things \union UsedBy(dying)
               \union (IF is = {} THEN {} ELSE {"data_types", "resource"})
               \union (IF begun = {} THEN {} ELSE {"threads", "modules"}))

(* The collector of an instance whose destructor was started and has not   *)
(* confirmed leaves the answer unset (confirm in gc.c): the sweep acts on  *)
(* the answer of an item before it, or on what was there before the first, *)
(* and may take the item out of the table.                                 *)
Unanswered(is) == \E s \in SUBSET {i \in is : Pending(i)} : lost' = lost \union s

(* What the marks are set from.  The `this' of a destructor is no shell    *)
(* with an item of the table: it keeps no instance marked.                 *)
Roots == {"threads", "modules", "globals", "builtins", "gc_stub"}
Unreachable(kept) == {i \in Registered : place[i] \notin kept}

(* A collection while functions run: for lack of memory, or at the end of  *)
(* a time slice.                                                           *)
Collect ==
    /\ InBody
    /\ LET garbage == Unreachable(Places \union {"thread"})
       IN /\ garbage # {}
          /\ CallCollectors(garbage, {}, Roots) /\ Unanswered(garbage)
          /\ waiting' = waiting \union Begun(garbage)
          /\ IF NotFound(garbage) = {} THEN UNCHANGED <<stage, failed, fn, occurred>>
             ELSE Fail(TRUE)
    /\ UNCHANGED <<program, alive, todo, loading, cursor, ran, open, types>>

(* The thread list runs on with the threads of destructors. *)
Remaining(begun) == IF begun = {} THEN NULL ELSE fn

(* No thread remains: what they held is gone, a collection is made, and    *)
(* the function ends unless that started destructors.                      *)
EndOfThreads ==
    /\ InBody /\ waiting = {}
    /\ LET garbage == Unreachable(Places)
       IN /\ CallCollectors(garbage, At({"thread"}), Roots) /\ Unanswered(garbage)
          /\ waiting' = Begun(garbage)
          /\ IF NotFound(garbage) # {} THEN Fail(TRUE)
             ELSE /\ fn' = Remaining(Begun(garbage))
                  /\ UNCHANGED <<stage, failed, occurred>>
    /\ UNCHANGED <<program, alive, todo, loading, cursor, ran, open, types>>

(* A step fails; not every failure leaves an error in the rail. *)
Raise(inRail) ==
    /\ InBody /\ Fail(inRail)
    /\ UNCHANGED <<program, alive, todo, loading, cursor, ran, open, types, objects, stale>>

-----------------------------------------------------------------------------
(* The end. *)

(* After an error these stay: its text is in them. *)
AfterError ==
    <<"threads", "modules", "globals", "builtins", "events",
      "data_types", "shared_libraries", "debugger">>

(* Mutant: the pools go before the collectors are called. *)
PoolsFirst(error) ==
    IF error THEN AfterError
    ELSE <<"threads", "modules", "globals", "builtins", "events",
           "mutexes", "semaphores", "resource", "gc_stub", "close",
           "data_types", "shared_libraries", "debugger">>

DestroyOrder(error) ==
    IF error THEN AfterError
    ELSE <<"threads", "modules", "globals", "builtins", "events",
           "mutexes", "semaphores", "gc_stub", "resource", "close",
           "data_types", "shared_libraries", "debugger">>

(* vm_run collects once more, and reads the error rail after that. *)
FinalCollect ==
    /\ stage = "collect"
    /\ LET garbage == Unreachable(Places \union {"thread"})
       IN /\ CallCollectors(garbage, {}, Roots) /\ Unanswered(garbage)
          /\ waiting' = waiting \union Begun(garbage)
          /\ occurred' = (occurred \/ NotFound(garbage) # {})
    /\ stage' = "destroy" /\ todo' = DestroyOrder(occurred')
    /\ UNCHANGED <<program, alive, loading, running, failed, open, types>>

(* virtual_machine_destroy_without_shared_libraries, then                  *)
(* virtual_machine_destroy: the lists go with the objects in them, the     *)
(* collector with what is still registered.                                *)
DestroyPart ==
    /\ stage = "destroy" /\ todo # <<>>
    /\ LET part == Head(todo)
           collected == IF part = "gc_stub" THEN Registered ELSE {}
       IN /\ alive' = alive \ ({part} \union
                  (IF part = "builtins" THEN {"builtin_types"} ELSE {}))
          /\ CallCollectors(collected, At(PlaceOf(part)), Needed(part))
          /\ waiting' = IF part = "threads" THEN {} ELSE waiting
          /\ modules' = IF part = "modules" THEN <<>> ELSE modules
          /\ open' = IF part = "close" /\ ~ program.keep_dll THEN {} ELSE open
    /\ todo' = Tail(todo)
    /\ UNCHANGED <<program, stage, queue, running, failed, occurred, types, lost>>

Finish ==
    /\ stage = "destroy" /\ todo = <<>>
    /\ stage' = "ended" /\ queue' = <<>>
    /\ UNCHANGED <<program, alive, todo, modules, running, failed, occurred,
                   open, types, objects, stale>>

-----------------------------------------------------------------------------
Make == MakePart \/ LeaveTypesOut \/ MakeNothing
Load == LoadMain \/ LoadNext \/ AllLoaded
Pass == RunFunction \/ PassOver \/ EndOfPass \/ RunMain \/ EndOfMain
Destruct == \E i \in Instances, b \in BOOLEAN : RunDestructor(i, b)
Body ==
    \/ \E l \in Libraries : OpenLibrary(l)
    \/ \E r \in Raws : \/ \E l \in Libraries : MakeRaw(r, l)
                       \/ \E i \in Instances : CLSPSET(r, i)
    \/ \E c \in program.classes :
          \/ CLSTYPEREG(c)
          \/ \E m \in program.methods : CLSMADD(c, m[1], m[2])
          \/ \E i \in Instances : CLSINSTMK(i, c)
    \/ \E o \in Objects : DropObject(o) \/ (\E w \in Places : MoveTo(o, w))
    \/ Collect
    \/ \E b \in BOOLEAN : Raise(b)
End == FinalCollect \/ DestroyPart \/ Finish

Next == Make \/ Load \/ Pass \/ Destruct \/ EndOfThreads \/ Body \/ End

(* The host thread goes on; the functions that the modules export end, and *)
(* the threads of destructors with them.                                   *)
Spec ==
    /\ Init /\ [][Next]_vars
    /\ WF_vars(Make \/ Load \/ Pass \/ End)
    /\ WF_vars(Destruct) /\ WF_vars(EndOfThreads)

-----------------------------------------------------------------------------
(* Shape of the state. *)
TypeOK ==
    /\ alive \subseteq Part
    /\ \A i \in DOMAIN modules : modules[i].id = i - 1
    /\ fn # NULL => stage \in {"init", "autorun", "main"} /\ cursor.at \in 2..(Len(modules) + 1)
    /\ waiting \subseteq Live
    /\ \A r \in Raws : released[r] > 0 => place[r] = "gone"

(* Nothing is used before it is made or after it is destroyed: the pools   *)
(* by the parts whose memory they are, the types of data by collectors,    *)
(* the threads and modules by a destructor that is started, a library by   *)
(* the payloads that its functions release.                                *)
NothingDeadIsUsed == stale = {}

(* Before the first function runs, exactly the files that the imports lead *)
(* to are modules, once each, whatever cycles the imports have, when files *)
(* are called what they say; and each comes after one that imports it.     *)
LoadedIsImported ==
    stage \in {"init", "autorun", "main"} /\ WellNamed(program) =>
        /\ {modules[i].file : i \in 2..Len(modules)} = Imported(program)
        /\ Len(modules) = Cardinality(Imported(program)) + 1
        /\ \A i \in 3..Len(modules) : \E j \in 2..(i - 1) :
                modules[i].file \in ToSet(program.imports[modules[j].file])

(* Every function that a module exports runs once: __predefined__ before   *)
(* __init__ in the order of the modules, any __autorun__ after all of      *)
(* these, main last; and a run that does not fail leaves none out.         *)
PassOf(r) ==
    IF r[1] \in {"predefined", "init"} THEN 1 ELSE IF r[1] = "autorun" THEN 2 ELSE 3
Earlier(r, s) ==
    \/ PassOf(r) < PassOf(s)
    \/ PassOf(r) = PassOf(s) /\ r[2] < s[2]
    \/ r[2] = s[2] /\ r[1] = "predefined" /\ s[1] = "init"
RunsInOrder ==
    /\ \A i, j \in DOMAIN ran : i < j => Earlier(ran[i], ran[j])
    /\ stage = "collect" /\ ~ failed =>
        ToSet(ran) = {r \in Functions \X (1..Len(modules)) :
                        r[1] \in modules[r[2]].exports /\ (r[1] = "main" => r[2] = 2)}

(* The payload of a raw object is released once, when its shell is         *)
(* destroyed, and a class that takes the name of its type does not keep    *)
(* that from it.  When the machine is destroyed without an error only      *)
(* those are left for ever that an instance holds whose destructor has not *)
(* confirmed, or was lost to a collection while it ran: after CLSDTOR no   *)
(* collection comes to such an instance again.  No other is ever lost.     *)
HasNotEnded(i) ==
    /\ class[i].type # 0 /\ types[class[i].type].destructor # NULL
    /\ ~ class[i].destructed
Keepers == lost \union {i \in Instances : HasNotEnded(i)}
PayloadsReleased ==
    /\ \A r \in Raws : released[r] = IF place[r] = "gone" THEN 1 ELSE 0
    /\ stage = "ended" /\ ~ occurred =>
        \A r \in Raws : place[r] \in {"none", "gone"} \union Keepers
    /\ \A i \in lost : class[i].inner /\ class[i].destructing

(* A property has one value, however often it is set. *)
OneValuePerProperty ==
    \A i \in Instances : Cardinality({r \in Raws : place[r] = i}) <= 1

(* When the machine is destroyed after a run that did not fail, no thread  *)
(* of a destructor is thrown away, and the destructor of every instance    *)
(* that no variable holds has run, unless it was added after the instance  *)
(* was gone.                                                               *)
DestructorsHaveRun ==
    stage = "destroy" /\ todo # <<>> /\ Head(todo) = "threads" /\ ~ failed /\ ~ occurred =>
        /\ waiting = {}
        /\ \A i \in Live : place[i] = "gone" => class[i].destructing

(* What is left when vm_run ends: nothing; after an error in the rail what *)
(* its text may still need; after a failed start only the collector.       *)
LeftAtEnd ==
    stage = "ended" =>
        /\ alive = IF todo # <<>> THEN {"gc_stub"} \ ToSet(todo)
                   ELSE IF occurred THEN {"gc_stub", "resource", "mutexes", "semaphores"}
                   ELSE {}
        /\ open = {} \/ occurred \/ program.keep_dll

(* The start, the loading and the destruction end, if the functions of the *)
(* program do.                                                             *)
Ends == <>(stage = "ended")

(* The modules that run are those the imports call for, and their          *)
(* functions run in the order the program may rely on.                     *)
LoadedInOrder == LoadedIsImported /\ RunsInOrder

(* Nothing that is destroyed is used, up to the end of the machine, which  *)
(* takes a property's value away once.                                     *)
Consistent == TypeOK /\ NothingDeadIsUsed /\ OneValuePerProperty

(* The machine ends clean: what must still run has run before the threads  *)
(* are destroyed, and the parts are gone.                                  *)
EndsClean == DestructorsHaveRun /\ LeftAtEnd
=============================================================================
