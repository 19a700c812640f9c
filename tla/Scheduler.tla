----------------------------- MODULE Scheduler -----------------------------
(***************************************************************************)
(* The threads of the virtual machine and the loop that runs them          *)
(* (virtual_machine_module_run_function, vm/vm.c).  An iteration of the    *)
(* loop holds the global lock from start to end, so it is one step here:   *)
(* the instruction that vm->tp executes, the removal of a thread that has  *)
(* ended, the choice of the next thread, the end of a time slice with its  *)
(* garbage collection.  Programs are arbitrary: a thread may execute any   *)
(* of Instrs next, except that an instruction that left the pc where it    *)
(* was is the one the thread executes again.                               *)
(*                                                                         *)
(* Threads may be created without end.  An id stands for a living thread   *)
(* and is free again when the thread has ended; a handle of an ended       *)
(* thread is Ended, since all that the loop asks of it is whether the      *)
(* thread still exists.                                                    *)
(***************************************************************************)
EXTENDS Integers, Sequences, SequencesExt

CONSTANTS
    MaxThreads,   (* bound: threads alive at a time *)
    TimeSlice,    (* vm->time_slice *)
    Mutexes,      (* mutexes made by MTXMK before the threads start *)
    Instrs,       (* instructions the programs use *)
    DebugInstrs,  (* bound: those they use once the debugger has started *)
    NULL          (* vm->tp when no thread is left *)

Tid == 0 .. MaxThreads - 1
Ended == MaxThreads

ASSUME SchedulerAssumption ==
    /\ MaxThreads \in Nat \ {0}
    /\ TimeSlice \in Nat \ {0}
    /\ NULL \notin Int

VARIABLES
    threads,    (* vm->threads, in the order of creation *)
    tp,         (* vm->tp; Ended: it points to a destroyed thread *)
    state,      (* per thread: NORMAL or SUSPENDED *)
    type,       (* per thread: NORMAL or DEBUGGER *)
    retry,      (* per thread: the instruction the pc is stuck at *)
    mutex,      (* per mutex: LOCKED or UNLOCKED *)
    step,       (* vm->step_in_time_slice, up to TimeSlice *)
    debug,      (* vm->debug_mode *)
    ended,      (* whether a thread has ended: a handle may be Ended *)
    status      (* the loop: running, done or failed *)

loopVars == <<threads, tp, state, type, retry, mutex, step, debug, ended, status>>

None == [name |-> "none", of |-> NULL]
WaitFor(u) == [name |-> "TWAIT", of |-> u]
LockOf(m) == [name |-> "MTXLCK", of |-> m]

LoopInit ==
    /\ threads = <<0>>
    /\ tp = 0
    /\ state = [t \in Tid |-> "NORMAL"]
    /\ type = [t \in Tid |-> "NORMAL"]
    /\ retry = [t \in Tid |-> None]
    /\ mutex = [m \in Mutexes |-> "UNLOCKED"]
    /\ step = 0
    /\ debug = FALSE
    /\ ended = FALSE
    /\ status = "running"

-----------------------------------------------------------------------------
Alive == ToSet(threads)

(* threads->begin, the place of a thread in the list, the list without it. *)
Begin(list) == IF list = <<>> THEN NULL ELSE list[1]
Place(t, list) == CHOOSE i \in DOMAIN list : list[i] = t
Without(t, list) == RemoveAt(list, Place(t, list))

(* The first of some places in the list. *)
FirstOf(places) == CHOOSE i \in places : \A j \in places : i <= j

(* The places of the threads that next_thread may choose instead of old. *)
Others(old, list, types, dbg) ==
    {i \in DOMAIN list : /\ types[list[i]] = IF dbg THEN "DEBUGGER" ELSE "NORMAL"
                         /\ list[i] # old}

(* Mutants: the dying thread is offered although there are others; the     *)
(* search starts at the first thread of the list and never goes on.        *)
NextThreadStays(old, list, types, dbg) == old

NextThreadFromBegin(old, list, types, dbg) ==
    LET others == Others(old, list, types, dbg)
    IN IF others = {} THEN old ELSE list[FirstOf(others)]

(* virtual_machine_next_thread: the first eligible thread behind old in    *)
(* cyclic order, or old itself when there is no other.  It does not look   *)
(* at the state of the thread.                                             *)
NextThread(old, list, types, dbg) ==
    LET others == Others(old, list, types, dbg)
        behind == {i \in others : i > Place(old, list)}
    IN IF others = {} THEN old
       ELSE list[FirstOf(IF behind # {} THEN behind ELSE others)]

(* The id for a new thread, one that nobody had before this iteration. *)
Unused(list) == Tid \ (Alive \union ToSet(list))
NewId(list) == FirstOf(Unused(list))

(* A collection may start a thread for one destructor (a bound: one per    *)
(* collection), unless the bound on threads is reached.                    *)
MayDestruct(list) ==
    {<<>>} \union IF "DESTRUCTOR" \in Instrs /\ Unused(list) # {} THEN {<<NewId(list)>>} ELSE {}

(* What is kept of the living threads: st, ty and re are their states,     *)
(* types and retries.  Who waits for a thread that is not in the list      *)
(* waits for one that has ended.                                           *)
Keep(list, st, ty, re) ==
    /\ state' = [t \in Tid |-> IF t \in ToSet(list) THEN st[t] ELSE "NORMAL"]
    /\ type' = [t \in Tid |-> IF t \in ToSet(list) THEN ty[t] ELSE "NORMAL"]
    /\ retry' = [t \in Tid |->
          IF t \notin ToSet(list) THEN None
          ELSE IF re[t].name = "TWAIT" /\ re[t].of \notin ToSet(list) THEN WaitFor(Ended)
          ELSE re[t]]

(* The rest of the iteration after an instruction: list is the thread list *)
(* the instruction left, cur what it left in vm->tp, blocked vm->locked,   *)
(* types the types of the threads.  When no thread is left the collection  *)
(* may leave threads that run destructors, else the loop ends.  A blocked  *)
(* thread gives up the processor without resetting the slice; the end of a *)
(* slice switches, collects and resets.                                    *)
EndIteration(list, cur, blocked, types, dbg) ==
    \E last \in IF list = <<>> THEN MayDestruct(list) ELSE {<<>>} :
    LET list1 == list \o last
        cur1 == IF list = <<>> THEN Begin(list1) ELSE cur
        expired == step + 1 >= TimeSlice
        next == IF list1 # <<>> /\ cur1 \notin ToSet(list1) THEN Ended
                ELSE IF list1 # <<>> /\ (blocked \/ expired)
                THEN NextThread(cur1, list1, types, dbg) ELSE cur1
    IN \E extra \in IF list1 # <<>> /\ expired /\ ~blocked
                    THEN MayDestruct(list1) ELSE {<<>>} :
        /\ threads' = list1 \o extra
        /\ tp' = next
        /\ step' = IF ~expired THEN step + 1 ELSE IF blocked THEN TimeSlice ELSE 0
        /\ ended' = (ended \/ ~(Alive \subseteq ToSet(list)))
        /\ status' = IF list1 = <<>> THEN "done" ELSE "running"

(* The instruction the current thread is about to execute may be i. *)
Executes(i) ==
    /\ status = "running" /\ tp \in Alive /\ state[tp] = "NORMAL"
    /\ IF retry[tp] # None THEN i = retry[tp]
       ELSE i.name \in IF debug THEN DebugInstrs ELSE Instrs

(* A handle of a thread: living or ended. *)
Handle(u) == u \in Alive \/ (u = Ended /\ ended)

Plain(name) == [name |-> name, of |-> NULL]

(* Any instruction that touches none of this state, TYIELD included: it    *)
(* only increases the pc.                                                  *)
Compute ==
    /\ Executes(Plain("COMPUTE"))
    /\ EndIteration(threads, tp, FALSE, type, debug)
    /\ Keep(threads, state, type, retry)
    /\ UNCHANGED <<mutex, debug>>

(* TFK: the clone has the state and the type of its parent, is appended to *)
(* the list and becomes the current thread.                                *)
Fork ==
    /\ Executes(Plain("TFK"))
    /\ Unused(<<>>) # {}
    /\ LET new == NewId(<<>>)
           list == Append(threads, new)
           types == [type EXCEPT ![new] = type[tp]]
       IN /\ EndIteration(list, new, FALSE, types, debug)
          /\ Keep(list, state, types, retry)
    /\ UNCHANGED <<mutex, debug>>

(* TWAIT on any thread ever created: while it exists the pc stays and the  *)
(* next thread of the list, of whatever type, is current; at the end of    *)
(* the list the waiting thread stays current.                              *)
Wait(u) ==
    /\ Executes(WaitFor(u))
    /\ Handle(u)
    /\ IF u \in Alive
       THEN LET p == Place(tp, threads)
                next == IF p < Len(threads) THEN threads[p + 1] ELSE tp
            IN /\ EndIteration(threads, next, FALSE, type, debug)
               /\ Keep(threads, state, type, [retry EXCEPT ![tp] = WaitFor(u)])
       ELSE /\ EndIteration(threads, tp, FALSE, type, debug)
            /\ Keep(threads, state, type, [retry EXCEPT ![tp] = None])
    /\ UNCHANGED <<mutex, debug>>

(* TEXIT: the current thread is destroyed and the first of the list is     *)
(* current, of whatever type.  Its mutexes stay locked.                    *)
Exit ==
    /\ Executes(Plain("TEXIT"))
    /\ LET rest == Without(tp, threads)
       IN /\ EndIteration(rest, Begin(rest), FALSE, type, debug)
          /\ Keep(rest, state, type, retry)
    /\ UNCHANGED <<mutex, debug>>

(* RETURN from the first frame: the running stack is empty.  The next      *)
(* thread is chosen while the dying one is still in the list.              *)
Return ==
    /\ Executes(Plain("RETURN"))
    /\ LET rest == Without(tp, threads)
       IN /\ EndIteration(rest, NextThread(tp, threads, type, debug), FALSE, type, debug)
          /\ Keep(rest, state, type, retry)
    /\ UNCHANGED <<mutex, debug>>

(* HALT: all threads are destroyed. *)
Halt ==
    /\ Executes(Plain("HALT"))
    /\ EndIteration(<<>>, NULL, FALSE, type, debug)
    /\ Keep(<<>>, state, type, retry)
    /\ UNCHANGED <<mutex, debug>>

(* TSUSPEND and TRESUME: a thread that does not exist is a runtime error,  *)
(* which ends the loop.                                                    *)
SetState(name, u, s) ==
    /\ Executes(Plain(name))
    /\ Handle(u)
    /\ IF u \in Alive
       THEN /\ EndIteration(threads, tp, FALSE, type, debug)
            /\ Keep(threads, [state EXCEPT ![u] = s], type, retry)
       ELSE /\ status' = "failed"
            /\ UNCHANGED <<threads, tp, state, type, retry, step, ended>>
    /\ UNCHANGED <<mutex, debug>>

(* Mutant: the test of the mutex is inverted. *)
MutexLockInverted(m) ==
    /\ Executes(LockOf(m))
    /\ IF mutex[m] = "UNLOCKED"
       THEN /\ EndIteration(threads, tp, TRUE, type, debug)
            /\ Keep(threads, state, type, [retry EXCEPT ![tp] = LockOf(m)])
       ELSE /\ EndIteration(threads, tp, FALSE, type, debug)
            /\ Keep(threads, state, type, [retry EXCEPT ![tp] = None])
    /\ UNCHANGED <<mutex, debug>>

(* MTXLCK: busy, the pc stays and vm->locked makes the loop switch. *)
MutexLock(m) ==
    /\ Executes(LockOf(m))
    /\ IF mutex[m] = "LOCKED"
       THEN /\ EndIteration(threads, tp, TRUE, type, debug)
            /\ Keep(threads, state, type, [retry EXCEPT ![tp] = LockOf(m)])
            /\ UNCHANGED mutex
       ELSE /\ EndIteration(threads, tp, FALSE, type, debug)
            /\ Keep(threads, state, type, [retry EXCEPT ![tp] = None])
            /\ mutex' = [mutex EXCEPT ![m] = "LOCKED"]
    /\ UNCHANGED debug

(* MTXUNLCK: any thread may unlock, and unlocking twice is no error. *)
MutexUnlock(m) ==
    /\ Executes(Plain("MTXUNLCK"))
    /\ mutex' = [mutex EXCEPT ![m] = "UNLOCKED"]
    /\ EndIteration(threads, tp, FALSE, type, debug)
    /\ Keep(threads, state, type, retry)
    /\ UNCHANGED debug

(* INT VM_INT_DBG_START: the current thread becomes the debugger; nothing  *)
(* leaves debug mode again.                                                *)
DebugStart ==
    /\ Executes(Plain("DBG_START"))
    /\ LET types == [type EXCEPT ![tp] = "DEBUGGER"]
       IN /\ EndIteration(threads, tp, FALSE, types, TRUE)
          /\ Keep(threads, state, types, retry)
    /\ debug' = TRUE
    /\ UNCHANGED mutex

(* An iteration that finds the current thread suspended only switches; it  *)
(* is no step of the time slice.                                           *)
SkipSuspended ==
    /\ status = "running" /\ tp \in Alive /\ state[tp] = "SUSPENDED"
    /\ tp' = NextThread(tp, threads, type, debug)
    /\ UNCHANGED <<threads, state, type, retry, mutex, step, debug, ended, status>>

(* The head of an iteration that finds an external event raised: a thread  *)
(* for its callback is appended and becomes the current thread.            *)
ExternalEvent ==
    /\ status = "running" /\ "EVENT" \in Instrs
    /\ Unused(<<>>) # {}
    /\ threads' = Append(threads, NewId(<<>>))
    /\ tp' = NewId(<<>>)
    /\ UNCHANGED <<state, type, retry, mutex, step, debug, ended, status>>

Iterate ==
    \/ Compute \/ Fork \/ Exit \/ Return \/ Halt \/ DebugStart \/ SkipSuspended
    \/ \E u \in Tid \union {Ended} : Wait(u)
    \/ \E u \in Tid \union {Ended} : SetState("TSUSPEND", u, "SUSPENDED")
    \/ \E u \in Tid \union {Ended} : SetState("TRESUME", u, "NORMAL")
    \/ \E m \in Mutexes : MutexLock(m) \/ MutexUnlock(m)

LoopNext == Iterate \/ ExternalEvent

LoopSpec == LoopInit /\ [][LoopNext]_loopVars

(* The loop never pauses while it runs; events need not come. *)
LoopFairSpec == LoopSpec /\ WF_loopVars(Iterate)
-----------------------------------------------------------------------------
LoopTypeOK ==
    /\ threads \in Seq(Tid) /\ IsInjective(threads)
    /\ tp \in Tid \union {Ended, NULL}
    /\ state \in [Tid -> {"NORMAL", "SUSPENDED"}]
    /\ type \in [Tid -> {"NORMAL", "DEBUGGER"}]
    /\ retry \in [Tid -> {None} \union {WaitFor(u) : u \in Tid \union {Ended}}
                               \union {LockOf(m) : m \in Mutexes}]
    /\ mutex \in [Mutexes -> {"LOCKED", "UNLOCKED"}]
    /\ step \in 0 .. TimeSlice
    /\ debug \in BOOLEAN
    /\ ended \in BOOLEAN
    /\ status \in {"running", "done", "failed"}

(* The loop dereferences vm->tp at the head of every iteration: it is NULL *)
(* or a destroyed thread in one case only, when the last debugger thread   *)
(* has returned in debug mode (next_thread then offers the dying thread    *)
(* itself, which is removed).                                              *)
CurrentThreadExists ==
    status = "running" =>
        \/ tp \in Alive
        \/ debug /\ \A t \in Alive : type[t] = "NORMAL"

(* The loop stops normally only when every thread has ended. *)
DoneWhenEmpty == status = "done" => threads = <<>>

(* From some time on nothing starts a thread any more: no TFK, no event of *)
(* a host, no destructor.                                                  *)
NoNewThread == Alive' \subseteq Alive
NewThreadsStop == <>[][NoNewThread]_loopVars

(* Outside debug mode, once no new threads come, every thread becomes the  *)
(* current thread again and again until it ends, whatever the others do.   *)
(* New threads pass over others for ever if they never stop: TFK and       *)
(* events make the last thread of the list current, and the end of the     *)
(* slice goes on from there to the first.  So do as many threads in TWAIT  *)
(* as a slice has steps, if they follow one another in the list: each      *)
(* gives the processor to the next, the slice ends with it at the thread   *)
(* behind them, and that one is passed over.  MaxThreads <= TimeSlice      *)
(* leaves this out, as a slice of 100 does for fewer than 100 waiters.     *)
EveryThreadIsReached ==
    NewThreadsStop =>
        \A t \in Tid : (t \in Alive) ~> (tp = t \/ t \notin Alive \/ debug \/ status # "running")

(* A thread in TWAIT goes on once the thread it waits for has ended, *)
(* unless it is itself ended or suspended by another.                *)
JoinReturns ==
    \A t \in Tid :
        (retry[t] = WaitFor(Ended))
            ~> \/ retry[t] # WaitFor(Ended) \/ state[t] = "SUSPENDED"
               \/ debug \/ status # "running"

(* A thread that spins on a mutex gets it if the mutex stays free. *)
FreeMutexIsTaken ==
    \A t \in Tid, m \in Mutexes :
        <>[](/\ mutex[m] = "UNLOCKED" /\ t \in Alive /\ state[t] = "NORMAL"
             /\ ~debug /\ status = "running")
            => []<>(retry[t] # LockOf(m))

(* Whoever waits for a thread or for a mutex by repeating TWAIT or MTXLCK  *)
(* goes on when there is nothing left to wait for, unless new threads come *)
(* for ever.                                                               *)
WaitingEnds == NewThreadsStop => JoinReturns /\ FreeMutexIsTaken

(* At the head of every iteration the loop has a current thread, and it    *)
(* leaves no thread behind when it ends.                                   *)
LoopConsistent == LoopTypeOK /\ CurrentThreadExists /\ DoneWhenEmpty
=============================================================================
