# A verification of the Multiple virtual machine

Multiple is a virtual machine for programming languages: an assembler
(`src/tools/multiply`) makes bytecode, a core library (`src/core`) loads it and
offers an API to host programs, and the machine (`src/vm`, `src/gc`,
`src/misc`) executes it with threads, mutexes, semaphores, message boxes,
events raised by the host, continuations, classes with destructors and a
garbage collector. This directory holds TLA+ models of its core, the TLC
configurations that check them and proofs that TLAPS checks. Paths below are
relative to the directory `src/` of the repository.

## 1. Inventory

| component | state | operations | talks to | what is hard | what makes it correct |
|---|---|---|---|---|---|
| threads, scheduler, mutexes (`vm/vm.c`, `vm/vm_cpu_thread.c`, lists in `vm/vm_infrastructure.c`) | list of threads, current thread `tp`, per thread state, type, pc; slice counter; mutexes | one instruction per iteration of the loop, choice of the next thread, TFK TWAIT TEXIT TSUSPEND TRESUME TALIVE, MTXLCK MTXUNLCK | events start threads at the head of the loop, destructors at the end of a slice | threads die while they are current, types and states restrict who may run, waiting is done by repeating an instruction | `tp` points to a living thread, every thread is reached, joins return, a free mutex is taken |
| semaphores (`vm/vm_infrastructure.c`, API in `core/multiple.c`) | value, queue of VM threads and host threads, a channel per waiting host thread | SEMP, SEMV, P and V of the host | state of threads in the scheduler | host threads run beside the loop, wakeups by pointer, a unit may be taken between wakeup and use | no lost wakeup, exact queue, units are not given twice |
| message boxes | list and counter per thread | TSENDMSG TRECVMSG TISEMPTY | life of threads | counter and list are separate | order, no loss, the counter tells the truth |
| external events (`core/multiple.c`, `vm/vm_cpu_int.c`, `vm/vm.c`) | list of installed events: raises, arguments | install, push an argument, count arguments, raise (host); capture and start a thread (loop) | host threads, scheduler, collector | two locked sections, a call of the host is several API calls | no argument lost, one thread per raise, a raise is answered while the loop runs and earlier events are quiet |
| garbage collector (`gc/gc.c`, `gc/vm_gc.c`, `vm/vm_object_class.c`) | table of objects with marks, roots in the machine, destructors under way | allocate, store, drop; collect: mark, sweep, start a destructor, confirm | scheduler (threads of destructors), pools | cycles, objects that are half destroyed when the next collection comes | nothing in use is freed, everything else is, an instance is destructed once and outlives its destructor |
| variables and scopes (`vm/vm_infrastructure.c`, `vm/vm_cpu.c`) | linked lists of variables per frame, environment frame, module and globally | POP POPC POPCL POPCX POPM POPG, ARG and its kin, lookup | environments, calls, collector | pointers left behind by removals, order of removal and evaluation | a name has the value last assigned to it, lists are whole |
| resource pools (`gc/vm_res.c`, `misc/linked_pool.c`, `misc/page_pool.c`) | chains and bitmaps of blocks, counters | allocate, free, grow, lack and feedback around a collection | collector, every allocation, host threads | growth that fails half way, unsigned counters, the host allocates without the global lock | no block given twice, counters match the chain |
| calls, closures, promises, continuations (`vm/vm_cpu_control*.c`, `vm/vm_cpu_func.c`, `vm/vm_object_func.c`) | running stack of frames, captured continuations | CALL, TAILCALL, RETURN, YIELD, LIFT, PROMC, FUNCMK and its kin, CONTMK, traps | environments, collector | a continuation re-enters a frame that returned | a frame resumes as it was captured |
| environments (`vm/vm_env.c`, `vm/vm_object_env*.c`) | trees of frames shared by closures | extract, push, mask | calls, variables, collector | sharing, and who marks what is shared | a closure sees its frames |
| classes and composite data (`vm/vm_cpu_class.c`, `vm/vm_object_{list,hash,array,pair,tuple}.c`) | chains of nodes, slots, keys; properties and methods | make, add, take the first or the rest, look up, register | collector | handles that share one part, pointers into what was cut off | lookup returns what was stored, one structure changes at a time |
| life of the machine, modules (`vm_run` in `vm/vm.c`, `vm/vm_startup.c`, `vm/vm_dynlib.c`) | queue of modules to load, types of data, libraries, all of the lists above | make, load, run, destroy | everything | order of destruction, failure half way | every module is loaded once, nothing is used after it is destroyed |
| bytecode, assembler output, front end (`core/multiple_{ir,asm,bytecode}.c`, `tools/multiply`) | sections and offsets | read, write, two passes | life of the machine | round trips, offsets | what is written is read back |
| computing stack, scalars (`vm/vm_cpu_alu.c`, `vm/vm_object*.c`) | a doubly linked list of objects per frame | PICK, INSERT, REVERSE and the like, arithmetic, comparison, conversion, jumps | everything | two directions of links, three definitions of equality, widths | the stack is a sequence for all who walk it; operations agree with themselves |
| library calls, errors, debugger, command line, checksums | none to speak of | functions | - | - | left to unit tests |

`PROJECT.json` lists every component with its sources, and under `hazards`
what is hard to test, at its line, with the properties that watch it.

## 2. Modules

Each module is written from the functions that the `map` of `PROJECT.json`
names. `MC<module>` gives it its constants for TLC. The theorems of
`Variables`, `Lifecycle` and `Instructions` are in `<module>Proofs`, those of
`Scheduler` and `ExternalEvents` in `LoopProofs`, those of
`Semaphore` and `Mailbox` in `CommunicationProofs`, those of `GarbageCollector` and
`ResourcePools` in `MemoryProofs`, and those of `Calls` in `CallsProofs`, which rests on
`CallsStackProofs`. (What `Scheduler`, `Mailbox` and `GarbageCollector` define is named
`Loop...`, `Box...` and `Heap...` where another module has the name too, so that one proof
module can extend them together with it.) The
operators whose comment begins with *Mutant* are wrong variants of the definition
that follows, one for each property, which the properties must refute.

**`Semaphore`** - P and V on one semaphore. The list is locked in every
operation, so an operation is one step. A VM thread that finds no unit
(`TryP`) is queued and suspended, and repeats SEMP when it is woken (`Retry`);
a host thread queues (`NativeP`), polls its channel and takes a unit when the
channel says so (`NativeTake`), without looking at the value. `V` adds a unit
and wakes the head of the queue. `SetState` and `Exit` are what programs may do
to queued threads by hand; `meddled` remembers that they did. `CountingSemaphore`
is the promise: a value and a set of processes that wait, and nothing else.

**`Scheduler`** - one iteration of `virtual_machine_module_run_function`, which
holds the global lock from start to end, is one step (`Iterate`): an
instruction of the current thread, the removal of a thread that has ended, the
choice of the next one (`NextThread`), the end of the slice with its collection
(`EndIteration`). An instruction that leaves the pc where it is stays the
thread's next instruction (`retry`). `ExternalEvent` starts a thread at the head of
an iteration. The list of threads is in the order of creation, and threads may be
created without end: `MaxThreads` bounds only those alive at a time. The id of a thread
that has ended is used again; a handle of an ended thread is `Ended`, since all that
the loop asks of it is whether the thread still exists.

**`ExternalEvents`** - a step per locked section: `ArgPush`, `ArgsCount` and
`Raise` of the host threads, `Capture` and `StartThread` of the loop, which are two
sections. The loop processes events at the head of an iteration until a look finds
nothing raised (`NoneRaised`), executes an instruction (of which only `Install` matters
here), and then comes round again (`NextIteration`) or finds that no thread is left
(`LoopEnds`), after which the machine may run its next function (`RunFunction`).
`SeeError` ends it on the error a host left behind (`NotInstalled`). The hosts in
`Pollers` push for their next call only after `ArgsCount` said 0. Hosts go on for ever:
the numbers of their calls wrap, and `Forget`, which is no step of the program, drops
what is remembered of an event but for what is pending.

**`Mailbox`** - the box of a thread is a list and a counter of `Word` values. An
instruction is a step. The threads in `Askers` receive only after TISEMPTY said
that there is a message; the others receive when they like.

**`GarbageCollector`** - the program makes objects, loads, stores, erases and
drops references between collections; a collection marks one reference at a
time, then visits the objects of the table in any order (`Sweep...`). The
program does not run during a collection, which happens under the global lock:
what interleaves is the collection with the life of the destructors it starts,
which run as threads (`Confirm`, `EndDestructor`).

**`Variables`** - a heap of nodes with begin, end, next and prev, and the
instructions that assign, on one stack frame in an environment of two frames,
one module and the global list. `Solve` is the search order of
`virtual_machine_variable_solve`. `SolveAndReplace` and `RemoveAndSolve` are the two orders
the code has. A read of a freed node ends in the status fault. `Scopes` is the
promise: a map from names to values per scope, where an instruction gives its name,
in the scope it names (`Target`), the value that its operand had before it, changes
nothing else, and fails exactly when the operand has no value or POPCX finds no
variable to replace. So that the two can be compared step by step, `ran` has the last
instruction with its name and its operand.

**`ResourcePools`** - the three regions of memory (`gc/vm_res.c`), each on the malloc
of the system, on a `LinkedPool` (blocks of one size in cores that are added on
demand) or on a `PagePool` (a fixed number of pages). The two pool modules are
operators on a record that return the set of outcomes, one for each answer of
the system. A request, a release, the question whether a region lacks memory,
the collection and its feedback are steps; host threads ask for memory between
any two of them. A request is one step, although a host allocates without the global
lock (`vm/vm.c:760`) and a `PagePool` takes none of its own: requests that overlap in the
page pool are not in the model (section 5). `Allocator` is the promise: a block that nobody holds.

**`CompositeData`** - every instruction on lists, arrays, hashes, pairs and tuples.
`heap` has the internal parts that handles share; `ListInternal`, `ArrayInternal`
and `HashInternal` are the operators on them, written from the data structures:
a list keeps what is read along `next` and along `prev`, an array its block with
position and capacity, a hash its nodes and its count. `Freed` stands for a
pointer to what was given back; an instruction that reads it ends in the status
fault. An operand is a value, or, where the code does not resolve it, possibly a name
(`Ids`): the halves of PAIRMK, key and value of HASHADD, the key of HASHDEL, and that of
REFGET and REFSET on a hash. A key is then the name, whatever the variable holds, while
HASHMK and HASHHASKEY look for its value. `DataTypes` is the promise, in sequences and values. `DataValues` has the
values both speak of.

**`Instructions`** extends it with the rest of the instructions on data: those that
move objects about the computing stack (`ComputingStack`, linked both ways),
jumps, and the operations and conversions of scalars (`Scalars`), for words of
any width. A program uses either composite data or the stack and scalars, so
that one run checks both without their product. `ValueStack` is the promise of
the stack: a sequence of values. How the state maps to that of `DataTypes` and
`ValueStack` is said in `MCCompositeData`, where TLC checks that they are implemented.

**`Calls`** - one thread with functions, lambdas, promises, continuations and
generators. `RunningStack` has the frames, linked both ways, with the lists of
generators that yielded to them; `ContinuationList` the list over which calls
and returns keep the turning point of every continuation. The text of the
program is any, so an instruction is a step that may come at any pc; function
objects wait in variables (`held`). `Collect` marks as `vm_gc.c` and the markers of
function objects and environments do, and frees the rest. `FrameTree` is the
promise: an order of frames, each with the frames that yielded to it, without
pointers. `careful` remembers what a program did that the code does not
survive (a tail call under a continuation, an environment let go of while another
continues it, a collection that finds generators kept in a suspended frame); a
property that needs it says so.

**`Lifecycle`** - `vm_run` from the making of the parts, any of which may be refused,
over the queue of modules (`ModuleLoader`: what files declare, import and
export) and their functions to the destruction of the parts in the order of
`virtual_machine_destroy`. A function is what it leaves behind: open libraries,
raw objects with a payload of a library, instances of classes with destructors
(with types of data and their methods). An instance under destruction is no root:
a collection that comes while its destructor runs may leave `confirm` unset
(`Unanswered`) and drop it from the object table, and it is then in `lost`. `stale` collects every use of a part
that is not there.

How they fit together: the scheduler decides which thread runs; `Semaphore`,
`Mailbox`, `Variables`, `Calls` and `Instructions` leave that open and so hold for every
schedule. `ExternalEvents` and `GarbageCollector` start threads, which `Scheduler` has
as `ExternalEvent` and as the threads a collection at the end of a slice may add
(`MayDestruct`). `ResourcePools` decides when a collection comes; to
`GarbageCollector`, `Calls` and `Lifecycle` one may come at any time. `Lifecycle` runs
the loop of `Scheduler` as its functions.

## 3. Runs

| run | question | bounds and why they are enough |
|---|---|---|
| `semaphore_mixed` | are queue, wakeups and units right with VM and host threads and with programs that meddle | two of each kind give every pair of actors in a race; value at most 2 and a queue of 3 let units and waiters coexist |
| `semaphore_promise` | does the queue implement the counting semaphore, fairness included | four VM threads, initial value -1: up to three wait at once |
| `scheduler` | is the current thread alive, does the loop end only when nothing is left, is every thread reached, do joins return, is a free mutex taken | three threads alive at a time (one dies, one is next, one is between) and new ones without end, one mutex, slices of three: as many instructions as threads, which the fairness needs; once the debugger has started programs only fork, compute and end (`FewInstrs`) |
| `events` | arguments, raises and answers with two racing hosts; does a host that polls the count keep its calls apart | two hosts, one of which polls, on one event or on two; two installs, so that an id may be installed twice; calls of two arguments without end, numbered 0 and 1 in turn, so that a call differs from the one before and the one after it; a history of two raises |
| `mailbox` | order and loss for all threads; do threads that ask first get what TISEMPTY promised | three threads, two of which ask; three messages and a counter of four values, so that one that is decremented at 0 wraps |
| `gc` | is exactly the garbage freed; destructors and later collections | three plain objects: every graph with cycles and chains through garbage; or two instances with destructors that refer to each other |
| `gc_destructor_properties` | *violation*: properties freed under a destructor | an instance and its property |
| `variables` | do the lists implement scopes: POP, POPC, POPCX with any operand, POPCL, POPM, POPG with literals (`LateOperands`) | four nodes, so that three names may be in one list (removal at begin, middle and end) while another list has one too; two values; nodes, names and values are symmetric |
| `pools` | does a region give out each block once, count exactly, and have room after a collection it asked for | blocks of one core: 1; up to three cores, so that extension by two fails with none, one or both refused; two pages; four assignments of types to regions; a large block where one region is alone. `Width` is above all counts |
| `data` | do data types and stack do what they promise, and which instructions lead out of what C defines | ten programs: five on composite data (two structures of two elements: an index may lie past the end, a structure may hold itself and the other; one hands a name to the instructions that do not resolve it), one moving objects about a stack of five, one on all pairs of four-bit integers, one of jumps, one mixing scalars of all types with three-bit words, one of conversions with ten-bit words. A float is a whole number of quarters and two of them are equal when they are a quarter apart |
| `calls` | frames, generators, continuations, promises and what a collection leaves them | nine programs, one for each mechanism and one for collections that find generators of generators, with up to four frames, two function objects, up to two of which are continuations, three environments, one or two instructions per function and values per stack |
| `lifecycle` | which modules are loaded, in which order functions run, what is left at the end | twelve directories of up to four files: cycles, a diamond, wrong names, files that are missing, broken or empty; two instances, two raw objects, one library |

In most modules the invariants that say how its variables agree are parts of one,
`Consistent` (`LoopConsistent`, `BoxesConsistent` and `HeapConsistent` in `Scheduler`,
`Mailbox` and `GarbageCollector`), with the types; the parts are defined before it with a comment each.
`WaitingEnds`, `CounterTellsTruth`, `ScalarsAgree`, `LoadedInOrder` and `EndsClean` join two
properties in the same way.

`CarefulProgramsSafe`, `NothingReachableIsFreed`, `LoneContinuationFits` and the parts
`CollectorSeesStack`, `TracedAgree` and `FramesKeepTheirFunction` hold of programs that
avoid named instructions in named situations; what happens in these situations
is in the model, and below.

The views of `variables`, `data` and `calls` (`ListsOnly`, `DataView`, `CallsView`) leave
out the last instruction with its operands and answer, which only action properties look at:
TLC checks these on every step it computes, also on steps to a state it has
seen.

What the other properties promise:

- `NoLostWakeup`, `BoundedDeficit`, `UnitsReachWaiters`, `ImplementsPromise` (semaphores): a unit
  never lies beside a waiter nobody has woken, and reaches one under fairness.
- `CallsIntact`, `NoArgumentLost`, `RaisesAnswered` (`events`): a host that polls and has
  its event for itself gets its calls through whole; no argument is lost, doubled or
  reordered, whoever pushes; a raise is answered if the loop does not end first and the
  events installed before its own are quiet from some time on.
- `EveryThreadIsReached`, `WaitingEnds` (`scheduler`): if no thread is started any more from
  some time on, every thread gets the processor again and again until it ends, and nobody
  repeats for ever TWAIT on a thread that has ended or MTXLCK on a mutex that stays free.
- `CollectionIsExact`, `DestructorOnce`, `DestructorFindsItsProperties` (`gc`): see section 4
  and the violation below.
- `NoFreedVariableRead`, `ImplementsScopes` (`variables`): the search never follows a
  pointer to a freed variable, and each assignment does to its name, in its scope, what
  a map per scope does: no value is stale, wrong, lost or put where it does not belong.
- `CollectionHelps`, `ImplementsAllocator` (`pools`): a region has room after the
  collection it asked for, and gives and takes blocks as a set of free blocks does.
- `ImplementsDataTypes`, `ImplementsValueStack`, `ArithmeticAgrees`, `ScalarsAgree` (`data`):
  structures are sequences and maps of values (of names, where an operand is not
  resolved), the stack a sequence, arithmetic is
  that of the integers modulo the width, and equality, keys of hashes and
  conversions there and back agree with each other.
- `FollowsTheTree`, `ContinuationWindsBack`, `NothingReachableIsFreed`, `LoneContinuationFits`
  (`calls`): the linked frames do what a tree of frames does, a continuation
  brings every frame back to its place in the text, however many there are, and
  one that is alone stays within the stack; and no collection of a careful program
  (`drop`, `met`) frees what a frame of the stack can still reach.
- `LoadedInOrder`, `PayloadsReleased`, `EndsClean`, `Ends` (`lifecycle`): the modules that
  run are those the imports call for, in the order a program may rely on; payloads are
  released at most once, and after a run that did not fail all are, but for those that an
  instance keeps whose destructor never confirmed or which was lost while it ran
  (`Keepers`); nothing but the leftovers named below survives the machine.

### Fairness

`Semaphore`: weak fairness of the retry of a VM thread that is woken and of the
taking by a woken host thread (its polling loop); nothing for V, which a program
may never call. `Scheduler`: weak fairness of the loop, which is a `for (;;)`.
Both of its liveness properties have the premise `NewThreadsStop`, which the code does
not guarantee and a program or its host may not meet: TFK (`vm/vm_cpu_thread.c:567`)
and an event (`vm/vm.c:794`) make the new thread, the last of the list, current, and
the end of the slice goes on from there to the first (`vm/vm.c:827`), so that a thread
that forks in every slice, or a host that raises, keeps those in between from running.
The slice must also be at least the number of threads: TWAIT passes the processor to the
next thread without a new slice (`vm/vm_cpu_thread.c:590`), so as many waiters in a row
as a slice has steps use it up and the thread behind them is passed over. The code has
100 (`TIME_SLICE_DEFAULT`), the assumption is that fewer wait in a row.
`ExternalEvents`: weak fairness of the loop only; hosts may stop at any time or never,
and the loop may end at any iteration (`vm/vm.c:893`). `RaisesAnswered` has two premises
for that: the loop does not end first, and the events before this one in the list are quiet
from some time on, because `Capture` takes the first that is raised (`vm/vm.c:701`).
`Mailbox`: `PollingSpec` has the program of every thread in `Askers` come back to its
box; `MessagesAreReceived` is about these threads only. `Lifecycle`: the thread of the host goes on (it makes,
loads and destroys in a loop of its own), functions of the program end, and
threads of destructors end; a program that never returns keeps its machine, and
`Ends` is about the others.

### What the runs say of the code

The violation: the `this` object of a destructor is marked, what the instance
refers to is not (`vm/vm_object_class.c:179`), although the comment there says
that it is; the destructor may read properties that are freed.

Other disagreements with documents and comments the models have, without a run
of their own:

- TRECVMSG on an empty box takes one from a counter that is 0
  (`vm/vm_infrastructure.c:1599`); TISEMPTY, which `vm/vm_opcode.h:152` has tell
  whether the box is empty, is wrong from then on. `mailbox` has `Askers` for that.
- POPM, POPG and POPCL remove the variable before they solve the operand
  (`vm/vm_cpu.c:591`, `700`, `718`), which `vm/vm_opcode.h:94` assigns: the operand may
  be that variable; and the removal of the last variable leaves a pointer to it
  (`vm/vm_infrastructure.c:602`) that the search for the operand follows. A runtime
  error leaves it there too. `variables` keeps identifiers out of `LateOperands`.
- The feedback of a collection compares unsigned sizes whose difference wraps
  when a pool has grown in between (`misc/linked_pool.c:561`, comment at 523), and
  REFERENCE is not asked when PRIMITIVE lacks memory (`gc/vm_res.c:425`).
  `CollectionHelps` is about a region that asked.
- The comment of PROMC says "Pop function and result"; it pops the result only
  (`vm/vm_cpu_control.c:510`).

Facts that the models carry and a reader of the code should know:

- A host thread that V woke takes its unit without looking at the value
  (`vm/vm_infrastructure.c:2574`; `NativeTake`, and `BoundedDeficit` says how far below
  the value may get). The collector of a class leaves `confirm` unset when a
  destructor is under way (`vm/vm_object_class.c:208`, `gc/gc.c:385`), so the instance
  may leave the table before it is destroyed (`SweepDestructing`).
- Threads and events. New threads without end starve others, and so do a slice's worth
  of waiters (above). An event that is raised again and again starves those installed
  after it. What is raised when no thread is left, or after an error, waits for the next
  function and is never answered if there is none.
- Calls. `continuation_list_remove` makes a follower its own `prev`
  (`vm/vm_env.c:623`), which leaves `begin` on a freed item when two are removed.
  Calling one continuation does not move the turning points of the others, which
  may then run off the stack. Frames a continuation makes again come without
  computing stack and closure environment; a tail call replaces the frame that a
  continuation winds back. The environments that one continues are marked by
  function objects only. Of the generators those of the first level are marked and
  those kept in a suspended frame are not (`gc/vm_gc.c:196`), so a collection frees the
  environment and the function objects these still use; without `met`
  `NothingReachableIsFreed` is false. YIELD leaves its value on the stack of the
  generator.
- Composite data. HASHADD, HASHDEL, REFGET and REFSET take a key that is a name as the
  name (`vm/vm_cpu_composite_ds.c:500`, `549`); HASHMK and HASHHASKEY take its value. A key
  that HASHADD was given in a variable is thus not found by HASHHASKEY, and stays the
  name whatever the variable holds later. REFSET with a new key stores the key object it then destroys;
  HASHDEL does not count down; LSTADDH pushes nothing; the second ARRCDR of an
  array may write past its block; LSTCDR leaves the `prev` of its new head on a
  freed node.
- Stack and scalars. PICK leaves the `next` of the old top NULL, so that marking
  (`gc/vm_gc.c:126`), the copy of a frame and its release miss objects. INSERT with a
  count of two or more always ends in an internal error; PICK, PICKCP, INSERT and
  INSERTCP on an empty stack dereference NULL. The least integer divided by -1
  traps. Characters cannot be compared by order. EQ of floats is tolerant, their
  order exact; inf equals -inf and nan equals nan, as keys of a hash neither
  equals anything. The test for a digit accepts any byte in bases 2, 8 and 10.
  A string converts to TRUE whatever it says.
- Life. `virtual_machine_initialize_builtin_variables` succeeds when a type object
  is refused. A failed `virtual_machine_new` leaves the collector behind. Raw objects
  without a function to destroy them are never freed; a clone that is refused
  releases the payload of the original (`vm/vm_object_raw.c:116`, not in the model). An
  instance that a collection lost while its destructor ran keeps its payload for ever:
  it has left the object table, and CLSDTOR frees nothing when it confirms
  (`vm/vm_object_class.c:205`). Destructors of
  instances that variables still hold at the end never run; a destructor whose
  module is not loaded raises in the thread that happened to collect. After an
  error, mutexes, semaphores, the collector and the resource stay, and libraries
  stay open. A main file that imports itself is loaded twice. `__init__` of an
  importer runs before those of its imports.

## 4. Proofs

Checked by TLAPS for all values of the constants, from the assumptions each
module names (`ThreadsAssumption`, `MailboxAssumption`, ...):

- `Semaphore` (in `CommunicationProofs`). *TypeCorrect* is inductive as it stands. *DeficitBounded*: only a woken
  host thread lowers the value below the lowest, once per waking. *QueueExact*
  and *WakesLivingThreads* follow from `QueueInv`: until a program meddles, the
  queue has no duplicates and is exactly the suspended threads at SEMP and the
  host threads on a waiting channel; `V` keeps that because it takes the head
  off in the step that wakes it. *WakeupsAreNotLost*: with `QueueInv`, a positive
  value and a non-empty queue imply a process that has been woken and has not
  yet taken. *KeepsPromise*: without host threads every step is a step of
  `CountingSemaphore` or leaves its variables alone.
- `GarbageCollector` (in `MemoryProofs`). The reachable objects are the least closed set above
  the roots (`ReachableIsLeast`). The invariant `PlainInv` says that marks stay
  inside the reachable set during marking and are closed when the sweep
  begins, and that the sweep has freed only unmarked objects; it gives
  *NothingInUseIsFreed*, *TableIsExact* and *CollectionsAreExact*.
  `DestructorInv` ties the stage of an instance to the threads of destructors and gives
  *InstanceOutlivesDestructor* and *DestructedOnce*.
- `Mailbox` (in `CommunicationProofs`). *MessagesArriveInOrder* needs only that received and box together
  are what was sent, and that boxes of threads that are not forked are empty.
  *AskingIsEnough* and *CounterIsExact* are about the threads in `Askers`, whatever the
  others do, and are proved together (`CounterIsTrue`): that the counter is
  the length is needed for the answer to be right, and that the answer is right
  for the counter not to wrap; the bound on messages being below `Word` rules out
  the wrap upwards.
- `ExternalEvents` (in `LoopProofs`). *ArgumentsArrive*: what was pushed to an event is what its
  threads were started with, then what the loop has captured but not yet handed
  to a thread, then what is pending, in this order; `HistoryInv` says so between
  the two locked sections of `Capture` and `StartThread`. *PollersCallsArrive*: with
  `CallsInv`, a host of `Pollers` that has its event for itself finds nothing pending
  but the arguments of the call it is making, so that every raise takes one
  whole call.
- `Scheduler` (in `LoopProofs`), for any number of threads alive at a time and threads
  without end. `SchedInv` adds to `LoopConsistent` that an id nobody has is kept at the type
  of a new thread, and that there is no debugger thread before the debugger starts. Within an iteration (`Left`, `Lost`) the
  current thread may be one that just ended; the choice at the end finds another
  while the list is not empty, unless the debugger's last thread returned, the case
  `CurrentThreadExists` excepts. *CurrentThreadUnlessDebugging* says it without.
- `ResourcePools` (in `MemoryProofs`). A lemma per operation of `LinkedPool` and `PagePool`, failed
  growth included, says what it does to the blocks in the chain, to the counters and to
  the blocks that are out; with them `PoolsInv` (`Sound`, `SettingHolds`, `UseRecorded`) is
  inductive, for every size of core and every number of pages below `Width`.
  *CollectionsHelp* is an action property: it needs that `UseRecorded` holds when the
  collection begins. *KeepsPromise* maps each step to one of `Allocator` or to a stutter.
- `Variables`. A list is laid out by a sequence of nodes (`Laid`, `Whole`); what
  appending, removing from begin, middle and end and walking do is said in terms of
  that sequence, and walks are followed by induction over their length (from the
  least counterexample). POPM and its kin leave a list open between a removal and
  the append that closes it, so the invariant between instructions (`Settled`) is
  proved through steps inside an instruction where one list may be open.
  *StaysConsistent* is for all operands. *ListsAreScopes* says that each instruction, with
  the name, operand and scope it had, is the assignment of `Scopes` with the same, and
  fails when that one does: the operand is looked up in the lists before the
  instruction, and what the search finds in them is what the maps say (`First`).
  *NothingFreedIsRead* and *ListsAreScopes* are for
  operands that are literals (`LateOperands \subseteq Values` is their hypothesis),
  because with identifiers they are false, as section 3 says.
- `Lifecycle`. `LifeInv` has five parts, proved together because each needs others:
  `Control` (stages, cursor, modules), `RanInv` (the functions that have run are those
  the cursor has passed), `Held` (where objects are, one value per property, types that
  keep their place and destructor, a lost instance is one whose destructor was started),
  `Quiet` (between functions whatever is out of reach and still in the object table is
  under destruction), and `PartsInv` (while parts are made: a part of the pools is
  never there without them; while they are destroyed: `Closing`, what the parts to
  come still need). The orders of making, of undoing and of both destructions enter
  through four lemmas (`Parts`, `Undone`, `ClosesWhole`, `ClosesAfterError`); everything
  else uses only which part comes before which. *FunctionsRunInOrder* is the half
  `RunsInOrder` of `LoadedInOrder`. *LoadedAsImported* is all of it: `Gathered` says that
  the entries of the load queue are distinct, that those before the cursor are the modules
  loaded, in their order, that what a module imports is queued behind it and that every
  entry but the first is imported by a module before it; the files that can be
  reached (`Imported`) are then just the files loaded once the queue is done. The
  recursive functions `After` and `Reached` of `ModuleLoader` are unfolded by induction
  over their length (from the least counterexample). It assumes that a program has
  finitely many files and that a file's imports are a sequence.

- `Calls`, the pointers (`CallsStackProofs`). A frame is in one list, the running
  stack or the generators of another frame: the functions `own` and `pos` give the list and
  the place in it, and `Whole` says that pointers, ends and counters are what they make
  them. Every operation of `RunningStack` keeps a stack whole and does to the list of
  running frames (`Runs`) what its name says; `Fares` sums up what an instruction does:
  which frames stay, how high the stack is, and that all frames are fine. Walks along
  the stack and the loops that drop, restore and lift frames are recursive functions
  over a count, unrolled by induction over it (from the least counterexample).
- `Calls`, the properties (`CallsProofs`), for every text and any numbers of frames,
  function objects, continuations and environments. `Consistent` is not inductive, and
  `IInv` adds what it lacks. `Shape`: values name function objects there are. `Reached`:
  what frames and function objects use has not been collected, and an environment that
  another continues is held through a function object in a variable. `Tracing`: until two
  continuations have left their list it can be walked, and until one has, in both
  directions. `Lone`: the turning point of a continuation that is alone is the lowest
  height since it was made, and its snapshot agrees with the frames below that.
  One lemma per instruction shows that `IInv` is kept, together with `FiniteEnvs`, that
  there are finitely many environments, which makes the walk along them end. Of it follow *AlwaysConsistent*
  (`Consistent`), *NothingFreedEarly* (`NothingReachableIsFreed`), *AloneItFits*
  (`LoneContinuationFits`) and the action property *WoundBack* (`ContinuationWindsBack`).
  That `NothingReachableIsFreed` needs `met` came out of its proof: the step of a collection
  asks that every frame be marked, and generators of generators are not.

- `Instructions`, with `CompositeData` and `ComputingStack`, for any programs: any number
  of structures and of objects on the stack, any literals, words of any width.
  `MachineSound` is the inductive invariant. Of the stack (`Linked`, `Piled`) it names the
  objects q and the values v from the bottom up; top, bottom and every `prev` are what q
  says, every `next` too while the program was careful, and else possibly NULL. Of a
  structure (`DataSound`) it says what its data structure takes: the chain along `prev`
  is the one along `next` reversed, with at most a freed node behind it, which a list
  only has once a program was careless; the used part of an array lies in its block and
  has no freed object; the keys of a hash differ, and are not freed while the program
  was careful. What depends on care is part of the invariant because only with it the
  instructions that need it are safe. One lemma per operation says what it does to q and v,
  or makes of a sound structure; one step per instruction puts them together, and
  `Weakens` says that care is only ever lost. The loops of `Walk`, `Nth`, REVERSE and of the
  making of lists, arrays and hashes are recursive functions, followed over their
  length (from the least counterexample). *StaysConsistent*
  (`Consistent`) and *CarefulStaysSafe* (`CarefulProgramsSafe`) follow; for the first,
  `WalksAgree` shows that a walk from the top meets q reversed and one from the bottom q.

The theorem of `Consistent` is called *StaysConsistent*, that of `LoopConsistent`
*LoopStaysConsistent*, that of `BoxesConsistent`
*BoxesStayConsistent* and that of `HeapConsistent` *HeapStaysConsistent*. What the proofs
assume of constants is what the modules assume, which TLC evaluates in every run:
that the sets of actors, nodes, values and special values are disjoint where the
code has different types, that sets of nodes are finite, that `Width` is above the number of
pages (`size_t` counts more than there is), that messages number less than `Word`, that
the numbers in a program of `Calls` are natural numbers and that it does not start with more
functions than it may have, and that a program on data has a number of cells and integers as
literals.

TLC cannot evaluate `MachineSound`, whose sequences q and v range over all there are;
its consequences `Consistent` and `CarefulProgramsSafe` are what TLC checks.

Only model-checked:

- everything about liveness (`UnitsReachWaiters`, `EveryThreadIsReached`, `WaitingEnds`,
  `RaisesAnswered`, `MessagesAreReceived`, `Ends`, the fairness part of `ImplementsPromise`),
  which is beyond this prover;
- of `Instructions`, what scalars compute and the two promises. `ScalarsAgree` and
  `ArithmeticAgrees` are about conversions digit by digit and arithmetic modulo a power of
  two, inductions over data for which the prover has no instances. `ImplementsDataTypes`
  reads lists, arrays and hashes as sequences and maps through `SelectSeq`, which is
  recursive over data as well. `ImplementsValueStack` follows from `Piled` operation by operation
  (what each does to v is stated in the lemmas), but its steps go through the operations
  of scalars;
- `FollowsTheTree` of `Calls`: the tree nests the generators of generators to any depth,
  and that the pointers describe one is an induction over that nesting.

## 5. What the models leave out

- The formats of messages, errors and of the bytecode; what the debugger prints.
- Memory that is refused, except to pools (`ResourcePools`) and to the parts of a new
  machine (`Lifecycle`): the error path of most instructions ends the run. So neither a
  clone of a raw object that is refused nor a variable that is (`vm/vm_cpu.c:552`) is
  modelled.
- In `ResourcePools`: requests that overlap. A host allocates without the global lock
  (`vm/vm.c:760`), and what two threads do to the chain or the bitmap of a page pool at
  the same time is undefined in C; the runs say what holds while requests come one
  after the other.
- The generational transfer of `gc/vm_gc.c`, which nothing calls.
- In `Variables`: argument passing from the caller's frame, names with a domain,
  built-in variables and the functions of a module, which are the last places the
  search looks in.
- In `Scheduler`: the limit of the running stack.
- In `Calls`: variables and prepared arguments of a frame, the module of a
  function, the flag of CALLC, more than one thread.
- In `CompositeData`: the index over the nodes of a list, which is built only after
  a search that misses, and the print of structures; in `Scalars`: complex and
  rational numbers and rounding.
- In `Lifecycle`: what a function does besides what outlives it; the debugger.
- Bytecode, assembler output and the assembler itself: sequential converters
  whose hard part is the bytes, which small sets of model values would leave
  out. Library instructions, opcodes, command line, checksums: input and output,
  tables, or standard algorithms. `PROJECT.json` gives the reason for each.

## 6. Plan

The models of section 2 are complete as far as section 5 says, and the safety
invariants of all of them are proved but `ScalarsAgree`. What is left:

1. `ImplementsValueStack`: what the lemmas of `InstructionsProofs` say of v, put together
   with the steps of `ValueStack`.
2. `ImplementsDataTypes`: `DataTypes` with maps in place of `SelectSeq`, so that the lemmas on
   hashes apply.

What `Scalars` computes for every width, `FollowsTheTree` and liveness stay with TLC.
