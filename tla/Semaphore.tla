----------------------------- MODULE Semaphore -----------------------------
(***************************************************************************)
(* One semaphore of the virtual machine (vm/vm_infrastructure.c), shared   *)
(* by VM threads, which execute SEMP and SEMV, and by host threads, which  *)
(* call multiple_virtual_machine_semaphore_p and _v (core/multiple.c).     *)
(* The semaphore list's lock makes each section between lock and unlock    *)
(* one step; host threads interleave with the VM at those points only.     *)
(*                                                                         *)
(* A VM thread that finds no unit is queued and SUSPENDED; V sets it back  *)
(* to NORMAL and it executes SEMP again.  A host thread that finds none    *)
(* queues a channel on its stack and polls it; V makes it AVALIABLE and    *)
(* the host thread then takes the unit without looking at the value.       *)
(* Semaphores are never removed, so one of them stands for each.           *)
(***************************************************************************)
EXTENDS Integers, Sequences, FiniteSets

CONSTANTS VmThreads,   (* threads of the virtual machine *)
          Natives,     (* threads of the host program *)
          Initial,     (* operand of SEMMK *)
          MaxValue,    (* bound on value: V is not called above it *)
          MaxQueue,    (* bound on the queue for TRESUME: a resumed waiter requeues *)
          Meddling     (* TRUE: programs use TSUSPEND/TRESUME/TEXIT *)

ASSUME ThreadsAssumption ==
    /\ VmThreads \intersect Natives = {}
    /\ IsFiniteSet(VmThreads)
    /\ IsFiniteSet(Natives)

ASSUME ValueAssumption ==
    /\ Initial \in Int
    /\ MaxValue \in Nat
    /\ MaxQueue \in Nat
    /\ Meddling \in BOOLEAN

VARIABLES
    value,     (* struct virtual_machine_semaphore: value *)
    queue,     (* suspended_threads: waiters in arrival order *)
    state,     (* struct virtual_machine_thread: state, per VM thread *)
    op,        (* "semp" while the pc of a VM thread is at a SEMP that blocked *)
    channel,   (* channel of a host thread; "none" outside semaphore_list_p *)
    meddled,   (* history: TSUSPEND or TRESUME changed some thread's state *)
    freed      (* history: V wrote to a thread that had been destroyed *)

vars == <<value, queue, state, op, channel, meddled, freed>>

Processes == VmThreads \union Natives

Init ==
    /\ value = Initial
    /\ queue = <<>>
    /\ state = [t \in VmThreads |-> "NORMAL"]
    /\ op = [t \in VmThreads |-> "other"]
    /\ channel = [n \in Natives |-> "none"]
    /\ meddled = FALSE
    /\ freed = FALSE

(* VM threads that the scheduler may step: alive and not suspended. *)
Steppable(t) == state[t] = "NORMAL" /\ op[t] # "exited"

-----------------------------------------------------------------------------
(* Mutant: a unit is taken at zero. *)
TryPAtZero(t) ==
    /\ Steppable(t)
    /\ \/ /\ value >= 0
          /\ value' = value - 1
          /\ op' = [op EXCEPT ![t] = "other"]
          /\ UNCHANGED <<queue, state>>
       \/ /\ value < 0
          /\ queue' = Append(queue, t)
          /\ state' = [state EXCEPT ![t] = "SUSPENDED"]
          /\ op' = [op EXCEPT ![t] = "semp"]
          /\ UNCHANGED value
    /\ UNCHANGED <<channel, meddled, freed>>

(* SEMP by VM thread t: take a unit, or join the queue and be suspended.   *)
(* BUSY leaves the pc where it is, so the thread retries SEMP when woken.  *)
TryP(t) ==
    /\ Steppable(t)
    /\ \/ /\ value > 0
          /\ value' = value - 1
          /\ op' = [op EXCEPT ![t] = "other"]
          /\ UNCHANGED <<queue, state>>
       \/ /\ value <= 0
          /\ queue' = Append(queue, t)
          /\ state' = [state EXCEPT ![t] = "SUSPENDED"]
          /\ op' = [op EXCEPT ![t] = "semp"]
          /\ UNCHANGED value
    /\ UNCHANGED <<channel, meddled, freed>>

(* First locked section of a host thread's P. *)
NativeP(n) ==
    /\ channel[n] = "none"
    /\ \/ /\ value > 0
          /\ value' = value - 1
          /\ UNCHANGED <<queue, channel>>
       \/ /\ value <= 0
          /\ queue' = Append(queue, n)
          /\ channel' = [channel EXCEPT ![n] = "UNAVALIABLE"]
          /\ UNCHANGED value
    /\ UNCHANGED <<state, op, meddled, freed>>

(* Mutant: the loop is not left. *)
NativeTakeAgain(n) ==
    /\ channel[n] = "AVALIABLE"
    /\ value' = value - 1
    /\ UNCHANGED <<queue, state, op, channel, meddled, freed>>

(* An iteration of the host thread's polling loop that sees its channel    *)
(* AVALIABLE: it decrements the value whatever the value is by now.        *)
NativeTake(n) ==
    /\ channel[n] = "AVALIABLE"
    /\ value' = value - 1
    /\ channel' = [channel EXCEPT ![n] = "none"]
    /\ UNCHANGED <<queue, state, op, meddled, freed>>

(* Mutants: the head stays in the queue; only the first unit wakes. *)
VKeepsHead ==
    /\ value < MaxValue
    /\ value' = value + 1
    /\ IF value' > 0 /\ queue # <<>>
       THEN \/ /\ Head(queue) \in VmThreads
               /\ state' = [state EXCEPT ![Head(queue)] = "NORMAL"]
               /\ freed' = (freed \/ op[Head(queue)] = "exited")
               /\ UNCHANGED channel
            \/ /\ Head(queue) \in Natives
               /\ channel' = [channel EXCEPT ![Head(queue)] = "AVALIABLE"]
               /\ UNCHANGED <<state, freed>>
       ELSE UNCHANGED <<state, channel, freed>>
    /\ UNCHANGED <<queue, op, meddled>>

VWakesAtOne ==
    /\ value < MaxValue
    /\ value' = value + 1
    /\ IF value' = 1 /\ queue # <<>>
       THEN /\ queue' = Tail(queue)
            /\ \/ /\ Head(queue) \in VmThreads
                  /\ state' = [state EXCEPT ![Head(queue)] = "NORMAL"]
                  /\ freed' = (freed \/ op[Head(queue)] = "exited")
                  /\ UNCHANGED channel
               \/ /\ Head(queue) \in Natives
                  /\ channel' = [channel EXCEPT ![Head(queue)] = "AVALIABLE"]
                  /\ UNCHANGED <<state, freed>>
       ELSE UNCHANGED <<queue, state, channel, freed>>
    /\ UNCHANGED <<op, meddled>>

(* V: one more unit; if it is a positive value, the head of the queue is   *)
(* removed and woken.                                                      *)
V ==
    /\ value < MaxValue
    /\ value' = value + 1
    /\ IF value' > 0 /\ queue # <<>>
       THEN LET w == Head(queue) IN
            /\ queue' = Tail(queue)
            /\ \/ /\ w \in VmThreads
                  /\ state' = [state EXCEPT ![w] = "NORMAL"]
                  /\ freed' = (freed \/ op[w] = "exited")
                  /\ UNCHANGED channel
               \/ /\ w \in Natives
                  /\ channel' = [channel EXCEPT ![w] = "AVALIABLE"]
                  /\ UNCHANGED <<state, freed>>
       ELSE UNCHANGED <<queue, state, channel, freed>>
    /\ UNCHANGED <<op, meddled>>

(* SEMV by a VM thread, and the host's call. *)
SemV(t) == Steppable(t) /\ op[t] = "other" /\ V
NativeV(n) == channel[n] = "none" /\ V

(* TSUSPEND and TRESUME by VM thread t on thread u write u's state and do  *)
(* not look at any queue u may be in.                                      *)
SetState(t, u, s) ==
    /\ Meddling
    /\ Steppable(t) /\ op[t] = "other"
    /\ op[u] # "exited"
    /\ state[u] # s
    /\ Len(queue) < MaxQueue
    /\ state' = [state EXCEPT ![u] = s]
    /\ meddled' = TRUE
    /\ UNCHANGED <<value, queue, op, channel, freed>>

(* TEXIT, or the return from the first frame: the thread is destroyed; the *)
(* queue is not searched for it.                                           *)
Exit(t) ==
    /\ Meddling
    /\ Steppable(t) /\ op[t] = "other"
    /\ op' = [op EXCEPT ![t] = "exited"]
    /\ UNCHANGED <<value, queue, state, channel, meddled, freed>>

Next ==
    \/ \E t \in VmThreads : TryP(t) \/ SemV(t) \/ Exit(t)
    \/ \E t, u \in VmThreads, s \in {"NORMAL", "SUSPENDED"} : SetState(t, u, s)
    \/ \E n \in Natives : NativeP(n) \/ NativeTake(n) \/ NativeV(n)

(* A thread stopped at SEMP runs again because the scheduler reaches every *)
(* NORMAL thread; a host thread inside P polls in a loop it does not leave.*)
(* Nobody has to start a P or to call V.                                   *)
Retry(t) == op[t] = "semp" /\ TryP(t)

Fairness ==
    /\ \A t \in VmThreads : WF_vars(Retry(t))
    /\ \A n \in Natives : WF_vars(NativeTake(n))

Spec == Init /\ [][Next]_vars

FairSpec == Spec /\ Fairness

-----------------------------------------------------------------------------
TypeOK ==
    /\ value \in Int
    /\ queue \in Seq(Processes)
    /\ state \in [VmThreads -> {"NORMAL", "SUSPENDED"}]
    /\ op \in [VmThreads -> {"other", "semp", "exited"}]
    /\ channel \in [Natives -> {"none", "UNAVALIABLE", "AVALIABLE"}]
    /\ meddled \in BOOLEAN
    /\ freed \in BOOLEAN

Queued(p) == \E i \in 1..Len(queue) : queue[i] = p

(* Waiters that V has woken and that have not yet come back for the unit. *)
WokenVm == {t \in VmThreads : op[t] = "semp" /\ state[t] = "NORMAL"}
WokenNatives == {n \in Natives : channel[n] = "AVALIABLE"}

(* As long as no program suspends or resumes threads by hand, the queue    *)
(* holds exactly the blocked waiters, each once: a waiter that is in no    *)
(* queue is never woken, one that is queued twice is woken for nothing.    *)
QueueHoldsWaiters ==
    ~meddled =>
        /\ \A i, j \in 1..Len(queue) : queue[i] = queue[j] => i = j
        /\ \A t \in VmThreads : Queued(t) <=> (op[t] = "semp" /\ state[t] = "SUSPENDED")
        /\ \A n \in Natives : Queued(n) <=> channel[n] = "UNAVALIABLE"

(* No lost wakeup: while somebody is queued, every available unit has a    *)
(* woken waiter on its way to it (semaphore_list_v wakes one per unit; a   *)
(* waiter that a thief overtakes queues again only at value <= 0).         *)
NoLostWakeup ==
    (~meddled /\ queue # <<>>) =>
        value <= Cardinality(WokenVm) + Cardinality(WokenNatives)

(* Units handed out and not there: a woken host thread takes its unit      *)
(* without checking, so the value may fall below zero, but never by more   *)
(* than one for each host thread.                                          *)
Lowest == IF Initial < 0 THEN Initial ELSE 0

BoundedDeficit == value >= Lowest - Cardinality(Natives \ WokenNatives)

(* V writes to the memory of a destroyed thread only in programs that      *)
(* resume a queued thread by hand.                                         *)
NoWriteToDestroyed == freed => meddled

(* The units do not stay there with waiters in the queue: someone takes    *)
(* them (for programs that do not suspend or resume by hand).              *)
UnitsReachWaiters ==
    (value > 0 /\ queue # <<>> /\ ~meddled) ~> (value <= 0 \/ queue = <<>> \/ meddled)

(* The abstract semaphore this one implements when only VM threads use it. *)
Promise == INSTANCE CountingSemaphore WITH
    units <- value,
    waiting <- {t \in VmThreads : op[t] = "semp"}
                 \union {n \in Natives : channel[n] # "none"}

ImplementsPromise == Promise!Spec

(* The queue, the states of the threads and the channels of the host agree *)
(* with each other, and V follows no pointer to a thread that is gone: the *)
(* parts above that SEMP, SEMV and the API of the host rely on.            *)
Consistent == TypeOK /\ QueueHoldsWaiters /\ NoWriteToDestroyed
=============================================================================
