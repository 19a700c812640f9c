--------------------------- MODULE ExternalEvents ---------------------------
(***************************************************************************)
(* External events: a program installs a callback under an event id; host  *)
(* threads push arguments, one library call each, and raise the event; at  *)
(* the head of each iteration the interpreter loop starts one thread per   *)
(* raise, whose arguments are all the arguments pushed so far              *)
(* (vm/vm.c, vm/vm_infrastructure.c, core/multiple.c).                     *)
(*                                                                         *)
(* Each library call, and each of the two locked sections of the loop, is  *)
(* one step.  Hosts go on for ever.  What the threads do is left out: an   *)
(* iteration may be the last of the loop, when the last thread has ended,  *)
(* and the machine may then run the loop again for its next function.      *)
(***************************************************************************)
EXTENDS Integers, Sequences

CONSTANTS
    Hosts,         (* threads of the host program *)
    Ids,           (* event ids handed out by INT VM_INT_EE_ALLOC *)
    ArgsPerCall,   (* arguments a host pushes before it raises *)
    MaxCalls,      (* bound: calls of a host are numbered 0 .. MaxCalls, *)
                   (* over and over                                      *)
    MaxRaises,     (* bound: raises of an event while it has a history *)
    MaxInstalls,   (* bound: callbacks installed *)
    Pollers        (* hosts that push for their next call only after *)
                   (* external_event_args_count has returned 0       *)

ASSUME EventsAssumption ==
    /\ ArgsPerCall \in Nat
    /\ MaxCalls \in Nat
    /\ MaxRaises \in Nat
    /\ MaxInstalls \in Nat
    /\ Pollers \subseteq Hosts

VARIABLES
    events,      (* vm->external_events, in order of installation *)
    captured,    (* index of the event between the two locked sections, or 0 *)
    loop,        (* at the head of an iteration, at its instruction, or ended *)
    host,        (* per host thread: the call it is building *)
    vmerr,       (* vm->r: no error, set by somebody, or seen by the loop *)
    started,     (* history: per event, the arguments of each of its threads *)
    pushed,      (* history: per event, every argument pushed *)
    delivered,   (* history: per event, the arguments of its threads, joined *)
    raises       (* history: per event, number of raises *)

vmVars == <<events, captured, loop>>
history == <<started, pushed, delivered, raises>>
vars == <<vmVars, host, vmerr, history>>

Entry == 1 .. MaxInstalls

Init ==
    /\ events = <<>>
    /\ captured = 0
    /\ loop = "head"
    /\ \E id \in [Hosts -> Ids] :
          host = [h \in Hosts |-> [id |-> id[h], call |-> 0, args |-> 0,
                                  clear |-> h \notin Pollers]]
    /\ vmerr = "none"
    /\ started = [i \in Entry |-> <<>>]
    /\ pushed = [i \in Entry |-> <<>>]
    /\ delivered = [i \in Entry |-> <<>>]
    /\ raises = [i \in Entry |-> 0]

-----------------------------------------------------------------------------
(* virtual_machine_external_event_list_lookup: the first event of that id; *)
(* an id installed twice keeps its first callback.                         *)
Installed(id) == {i \in DOMAIN events : events[i].id = id}
IsLookup(id, i) == i \in Installed(id) /\ \A j \in Installed(id) : i <= j

(* A library call on an event that is not installed sets the error of the  *)
(* virtual machine itself, which ends the program.                         *)
NotInstalled(id) ==
    /\ Installed(id) = {}
    /\ vmerr' = IF vmerr = "none" THEN "set" ELSE vmerr
    /\ UNCHANGED <<events, pushed, raises>>

(* Mutant: the count is 0 whatever is pending. *)
ArgsCountZero(h) ==
    /\ host[h].args = 0 /\ ~host[h].clear
    /\ host' = [host EXCEPT ![h].clear = TRUE]
    /\ UNCHANGED <<vmVars, vmerr, history>>

(* multiple_stub_external_event_args_count, called until it returns 0. *)
ArgsCount(h) ==
    /\ host[h].args = 0 /\ ~host[h].clear
    /\ \/ /\ NotInstalled(host[h].id)
          /\ UNCHANGED host
       \/ /\ \E i \in DOMAIN events : IsLookup(host[h].id, i) /\ events[i].args = <<>>
          /\ host' = [host EXCEPT ![h].clear = TRUE]
          /\ UNCHANGED <<events, vmerr, pushed, raises>>
    /\ UNCHANGED <<captured, loop, started, delivered>>

(* multiple_stub_external_event_arg_push_int and _raw. *)
ArgPush(h) ==
    LET value == <<h, host[h].call, host[h].args>> IN
    /\ host[h].args < ArgsPerCall /\ host[h].clear
    /\ host' = [host EXCEPT ![h].args = @ + 1]
    /\ \/ NotInstalled(host[h].id)
       \/ \E i \in DOMAIN events :
            /\ IsLookup(host[h].id, i)
            /\ events' = [events EXCEPT ![i].args = Append(@, value)]
            /\ pushed' = [pushed EXCEPT ![i] = Append(@, value)]
            /\ UNCHANGED <<vmerr, raises>>
    /\ UNCHANGED <<captured, loop, started, delivered>>

(* multiple_stub_external_event_raise. *)
Raise(h) ==
    /\ host[h].args = ArgsPerCall /\ host[h].clear
    /\ host' = [host EXCEPT ![h].call = IF @ = MaxCalls THEN 0 ELSE @ + 1,
                            ![h].args = 0, ![h].clear = h \notin Pollers]
    /\ \/ NotInstalled(host[h].id)
       \/ \E i \in DOMAIN events :
            /\ IsLookup(host[h].id, i)
            /\ raises[i] < MaxRaises
            /\ events' = [events EXCEPT ![i].raised = @ + 1]
            /\ raises' = [raises EXCEPT ![i] = @ + 1]
            /\ UNCHANGED <<vmerr, pushed>>
    /\ UNCHANGED <<captured, loop, started, delivered>>

(* What is remembered of an event is forgotten but for what is pending:    *)
(* this bounds the history and is no step of the program.                  *)
Forget(i) ==
    /\ i \in DOMAIN events /\ raises[i] = MaxRaises /\ started[i] # <<>>
    /\ started' = [started EXCEPT ![i] = <<>>]
    /\ pushed' = [pushed EXCEPT ![i] = events[i].args]
    /\ delivered' = [delivered EXCEPT ![i] = <<>>]
    /\ raises' = [raises EXCEPT ![i] = events[i].raised]
    /\ UNCHANGED <<vmVars, host, vmerr>>

-----------------------------------------------------------------------------
(* Mutant: only the first event of the list is looked at. *)
CaptureFirst ==
    /\ loop = "head" /\ captured = 0
    /\ events # <<>> /\ events[1].raised # 0
    /\ captured' = 1
    /\ UNCHANGED <<events, loop, host, vmerr, history>>

(* virtual_machine_external_event_capture: the first raised event of the   *)
(* list, found under the lock, which is then released.                     *)
Capture ==
    /\ loop = "head" /\ captured = 0
    /\ \E i \in DOMAIN events :
        /\ events[i].raised # 0
        /\ \A j \in DOMAIN events : events[j].raised # 0 => i <= j
        /\ captured' = i
    /\ UNCHANGED <<events, loop, host, vmerr, history>>

(* Mutants: the arguments are given and kept; one thread for all raises. *)
StartThreadKeepsArgs ==
    /\ captured # 0
    /\ events' = [events EXCEPT ![captured].raised = @ - 1]
    /\ started' = [started EXCEPT ![captured] = Append(@, events[captured].args)]
    /\ delivered' = [delivered EXCEPT ![captured] = @ \o events[captured].args]
    /\ captured' = 0
    /\ UNCHANGED <<loop, host, vmerr, pushed, raises>>

StartThreadForAll ==
    /\ captured # 0
    /\ events' = [events EXCEPT ![captured].raised = 0, ![captured].args = <<>>]
    /\ started' = [started EXCEPT ![captured] = Append(@, events[captured].args)]
    /\ delivered' = [delivered EXCEPT ![captured] = @ \o events[captured].args]
    /\ captured' = 0
    /\ UNCHANGED <<loop, host, vmerr, pushed, raises>>

(* The second locked section: the thread takes all pending arguments. *)
StartThread ==
    /\ captured # 0
    /\ events' = [events EXCEPT ![captured].raised = @ - 1, ![captured].args = <<>>]
    /\ started' = [started EXCEPT ![captured] = Append(@, events[captured].args)]
    /\ delivered' = [delivered EXCEPT ![captured] = @ \o events[captured].args]
    /\ captured' = 0
    /\ UNCHANGED <<loop, host, vmerr, pushed, raises>>

(* A look that finds nothing raised ends the processing of events. *)
NothingRaised == captured = 0 /\ \A i \in DOMAIN events : events[i].raised = 0

NoneRaised ==
    /\ loop = "head" /\ NothingRaised /\ vmerr = "none"
    /\ loop' = "instruction"
    /\ UNCHANGED <<events, captured, host, vmerr, history>>

(* INT VM_INT_EE_INSTALL, an instruction like any other. *)
Install(id) ==
    /\ loop = "instruction" /\ Len(events) < MaxInstalls
    /\ events' = Append(events, [id |-> id, raised |-> 0, args |-> <<>>])
    /\ UNCHANGED <<captured, loop, host, vmerr, history>>

(* The loop looks at the error after it has processed the events and again *)
(* after the instruction.  An error ends the program: no other function is *)
(* run.                                                                    *)
SeeError ==
    /\ vmerr = "set"
    /\ loop = "instruction" \/ (loop = "head" /\ NothingRaised)
    /\ vmerr' = "seen"
    /\ loop' = "ended"
    /\ UNCHANGED <<events, captured, host, history>>

(* Without an error another iteration comes, or no thread is left. *)
NextIteration ==
    /\ vmerr = "none" /\ loop = "instruction"
    /\ loop' = "head"
    /\ UNCHANGED <<events, captured, host, vmerr, history>>

LoopEnds ==
    /\ vmerr = "none" /\ loop = "instruction"
    /\ loop' = "ended"
    /\ UNCHANGED <<events, captured, host, vmerr, history>>

(* The machine runs its next function. *)
RunFunction ==
    /\ loop = "ended" /\ vmerr # "seen"
    /\ loop' = "head"
    /\ UNCHANGED <<events, captured, host, vmerr, history>>

Loop == Capture \/ StartThread \/ NoneRaised \/ SeeError \/ NextIteration \/ LoopEnds
HostCall(h) == ArgsCount(h) \/ ArgPush(h) \/ Raise(h)

Next ==
    \/ Loop \/ RunFunction
    \/ \E id \in Ids : Install(id)
    \/ \E h \in Hosts : HostCall(h)
    \/ \E i \in Entry : Forget(i)

Spec == Init /\ [][Next]_vars

(* The loop goes on with its iterations until it ends. *)
FairSpec == Spec /\ WF_vars(Loop)

-----------------------------------------------------------------------------
TypeOK ==
    /\ events \in Seq([id : Ids, raised : Nat, args : Seq(Hosts \X Nat \X Nat)])
    /\ Len(events) <= MaxInstalls
    /\ captured \in {0} \union DOMAIN events
    /\ loop \in {"head", "instruction", "ended"}
    /\ host \in [Hosts -> [id : Ids, call : 0 .. MaxCalls, args : 0 .. ArgsPerCall,
                           clear : BOOLEAN]]
    /\ vmerr \in {"none", "set", "seen"}
    /\ started \in [Entry -> Seq(Seq(Hosts \X Nat \X Nat))]
    /\ pushed \in [Entry -> Seq(Hosts \X Nat \X Nat)]
    /\ delivered \in [Entry -> Seq(Hosts \X Nat \X Nat)]
    /\ raises \in [Entry -> Nat]

(* No argument is lost, duplicated or reordered: what the threads of an    *)
(* event were given, and what is still pending, is what was pushed.        *)
NoArgumentLost ==
    \A i \in DOMAIN events : delivered[i] \o events[i].args = pushed[i]

(* What was captured outside the lock is still raised when it is used: the *)
(* unsigned counter raised never goes below zero.                          *)
CapturedIsRaised == captured # 0 => events[captured].raised > 0

(* One thread per raise. *)
ThreadsMatchRaises ==
    \A i \in DOMAIN events : raises[i] = events[i].raised + Len(started[i])

(* A host thread that polls the argument count, and has its event for      *)
(* itself, gets its calls through intact: each thread of the event has the *)
(* arguments of one call, in order.                                        *)
HasEventForItself(h) == \A g \in Hosts \ {h} : host[g].id # host[h].id

CallsIntact ==
    \A i \in DOMAIN events, h \in Pollers :
        (HasEventForItself(h) /\ events[i].id = host[h].id)
            => \A k \in DOMAIN started[i] : \E c \in 0 .. MaxCalls :
                  started[i][k] = [a \in 1 .. ArgsPerCall |-> <<h, c, a - 1>>]

Pending(i) == i \in DOMAIN events /\ events[i].raised > 0

(* The loop always takes the first raised event of the list, so one event  *)
(* starves another if hosts raise it again and again.  Once no earlier     *)
(* event is raised any more, each raise is answered by a thread, unless    *)
(* the loop ends first: what is raised when no thread is left, or after an *)
(* error, waits for the next function, if there is one.                    *)
EarlierAreQuiet(i) == \A j \in 1 .. i - 1 : ~Pending(j)

RaisesAnswered ==
    \A i \in Entry :
        <>[]EarlierAreQuiet(i) => (Pending(i) ~> (captured = i \/ loop = "ended"))

(* Between the two sections and beside the hosts, the list of events, the  *)
(* captured event and the threads that were started agree: what is         *)
(* captured is raised, and each raise has led, or will lead, to a thread.  *)
Consistent == TypeOK /\ CapturedIsRaised /\ ThreadsMatchRaises
=============================================================================
