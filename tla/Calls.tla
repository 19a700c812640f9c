-------------------------------- MODULE Calls --------------------------------
(***************************************************************************)
(* One thread that makes function objects and calls them                   *)
(* (vm/vm_cpu_func.c, vm/vm_cpu_control.c, vm/vm_cpu_control_cont.c): calls *)
(* and returns, generators, tail calls, traps, promises that keep their    *)
(* answer, closures over the environment of the frame that made them, and  *)
(* continuations, with the collections that find out what they still need. *)
(*                                                                         *)
(* The text of the program is any: each instruction of the program's set   *)
(* may stand anywhere, and a jump leads from the end of a function back to *)
(* its beginning.  An instruction that takes a function object, a          *)
(* number of arguments or a result from the computing stack finds what the *)
(* program pushed just before; function objects wait in global variables   *)
(* (held).  Computing stacks keep what outlives an instruction.            *)
(***************************************************************************)
EXTENDS RunningStack, ContinuationList, DataValues
CONSTANT Programs       (* bound: what one program uses, see below *)
ASSUME ProgramsAssumption ==
    \A p \in Programs : /\ p.args \subseteq Nat
                        /\ p.frames \in Nat   (* frames allocated at a time *)
                        /\ p.funcs \in Nat    (* function objects at a time *)
                        /\ p.pcs \in Nat \ {0} (* instructions of a function *)
                        /\ p.height \in Nat   (* values on a computing stack *)
                        /\ p.kernels \in Nat  (* environments at a time *)
                        /\ p.given \in Seq({"f", "g"}) (* functions made first *)
                        /\ Len(p.given) <= p.funcs
                        /\ p.conts \in Nat    (* continuations at a time *)
                        /\ p.shares \in BOOLEAN (* functions are values, too *)

VARIABLES stack,        (* the running stack *)
          funcs,        (* the internal parts of function objects *)
          kernels,      (* the environments: which one each continues *)
          traced,       (* the continuations whose turning point is kept *)
          held,         (* the function objects in variables *)
          status, instr, program,
          lowest,       (* lowest height since each continuation was made *)
          careful       (* plain: no tail call while there is a continuation, *)
                        (* no trap without a target; drop: no function object *)
                        (* let go of its environment while another continues  *)
                        (* that one, by being dropped or answered; met: only  *)
                        (* frames on the stack kept generators when there was *)
                        (* a collection; removed: traced continuations        *)
                        (* collected, up to two *)
vars == <<stack, funcs, kernels, traced, held, status, instr, program, lowest, careful>>

Fn(f) == <<"fn", f>>
Values == {Num(1)} \cup (IF program.shares THEN {Fn(f) : f \in held} ELSE {})
Addresses == {<<l, 0>> : l \in program.labels}
T == Top(stack)
Conts == {f \in DOMAIN funcs : funcs[f].kind = "cont"}
(* The n-th free one; a program without collections tells none apart.      *)
NewKernel(n) ==
    IF "collect" \notin program.ops THEN 1
    ELSE CHOOSE k \in 1 .. Cardinality(DOMAIN kernels) + n :
            /\ k \notin DOMAIN kernels
            /\ Cardinality((1 .. k) \ DOMAIN kernels) = n

Function(kind, address) ==
    [kind |-> kind, address |-> address, cached |-> <<>>,
     env |-> IF kind \in {"lambda", "promise"} THEN T.env ELSE Nil,
     snap |-> IF kind = "cont" THEN Snapshot(stack) ELSE <<>>,
     turningPoint |-> IF kind = "cont" THEN stack.size ELSE 0,
     item |-> IF kind = "cont" THEN UnusedItem(traced) ELSE NoItem]

Init ==
    /\ program \in Programs
    /\ stack = PushNew(Empty, New(<<"main", 0>>, 0, <<"main", 0>>, FALSE, 1))
    /\ kernels = <<Nil>>
    /\ funcs = [f \in DOMAIN program.given |-> Function("normal", <<program.given[f], 0>>)]
    /\ held = DOMAIN program.given
    /\ traced = EmptyList /\ lowest = <<>>
    /\ status = "running" /\ instr = <<"start">>
    /\ careful = [plain |-> TRUE, drop |-> TRUE, met |-> TRUE, removed |-> 0]
-----------------------------------------------------------------------------
Executes(op) == status = "running" /\ op \in program.ops
Next1(s) == [s EXCEPT !.frame[s.top].pc[2] = (@ + 1) % program.pcs]
PushOn(s, i, v) == [s EXCEPT !.frame[i].stack = Append(@, v)]
PopOff(s, i) == [s EXCEPT !.frame[i].stack = Front(@)]
Fits(s) == /\ Cardinality(DOMAIN s.frame) <= program.frames
           /\ \A i \in DOMAIN s.frame : Len(s.frame[i].stack) <= program.height
Becomes(s) == Fits(s) /\ stack' = s
Environments(all) == Cardinality(DOMAIN all) <= program.kernels /\ kernels' = all
Lowest(size) == lowest' = [f \in DOMAIN lowest |-> IF size < lowest[f] THEN size ELSE lowest[f]]
Fault == /\ status' = "fault" /\ instr' = <<"fault">>
         /\ UNCHANGED <<stack, funcs, kernels, traced, held, program, lowest, careful>>

PUSH(v) ==
    /\ Executes("PUSH")
    /\ Becomes(PushOn(Next1(stack), stack.top, v))
    /\ instr' = <<"PUSH", v>>
    /\ UNCHANGED <<funcs, kernels, traced, held, status, program, lowest, careful>>

(* What other instructions do with a result.                               *)
POP ==
    /\ Executes("POP") /\ T.stack # <<>>
    /\ Becomes(PopOff(Next1(stack), stack.top))
    /\ instr' = <<"POP">>
    /\ UNCHANGED <<funcs, kernels, traced, held, status, program, lowest, careful>>

(* continuation_list_update, with the stack at its new height.             *)
Update(size) ==
    IF ~Sound(traced) THEN /\ status' = "fault" /\ UNCHANGED <<funcs, traced>>
    ELSE /\ funcs' = [f \in DOMAIN funcs |-> [funcs[f] EXCEPT
                        !.turningPoint = Lowered(traced, f, @, size),
                        !.item = IF size = 1 /\ @ \in Traced(traced) THEN NoItem ELSE @]]
         /\ traced' = AfterUpdate(traced, size)
         /\ status' = IF size = 0 THEN "ended" ELSE status
-----------------------------------------------------------------------------
(* Making functions: where it starts, the environment it continues, the    *)
(* stack it goes back to, the answer it keeps.                             *)
UnusedFunc == CHOOSE f \in 1 .. Cardinality(DOMAIN funcs) + 1 :
                 f \notin DOMAIN funcs /\ 1 .. f - 1 \subseteq DOMAIN funcs
Make(op, kind, address) ==
    /\ Executes(op)
    /\ Cardinality(DOMAIN funcs) < program.funcs
    /\ kind = "cont" => Cardinality(Conts) < program.conts
    /\ LET f == UnusedFunc
       IN /\ funcs' = [g \in DOMAIN funcs \cup {f} |->
                         IF g = f THEN Function(kind, address) ELSE funcs[g]]
          /\ held' = held \cup {f}
          /\ IF kind = "cont"
             THEN /\ Sound(traced)
                  /\ traced' = AppendItem(traced, f)
                  /\ lowest' = [g \in DOMAIN lowest \cup {f} |->
                                  IF g = f THEN stack.size ELSE lowest[g]]
             ELSE UNCHANGED <<traced, lowest>>
    /\ Becomes(Next1(stack))
    /\ instr' = <<op>>
    /\ UNCHANGED <<kernels, status, program, careful>>
FUNCMK == Make("FUNCMK", "external", <<"host", 0>>)
NFUNCMK(address) == Make("NFUNCMK", "normal", address)
LAMBDAMK(address) == Make("LAMBDAMK", "lambda", address)
PROMMK(address) == Make("PROMMK", "promise", address)
CONTMK(address) == Make("CONTMK", "cont", address)
-----------------------------------------------------------------------------
(* Calls.                                                                  *)
TailOp(op) == op = "TAILCALL"
Finish(op, s) == IF TailOp(op) THEN LiftMerge(s) ELSE s
Answered(f) == funcs[f].kind = "promise" /\ funcs[f].cached # <<>>
HostValues == {Num(0)}  (* what a function of the host may return *)
Answers(f) == IF funcs[f].kind = "external" THEN HostValues
              ELSE ToSet(funcs[f].cached)

(* Of a promise that has its answer, or of a function of the host.         *)
CallAnswers(op, f, v) ==
    /\ Executes(op)
    /\ Answered(f) \/ funcs[f].kind = "external"
    /\ Becomes(PushOn(Next1(stack), stack.top, v))
    /\ instr' = <<"ANSWER", v>>
    /\ UNCHANGED <<funcs, kernels, traced, held, status, program, lowest, careful>>

(* The environment that of a new frame continues.                          *)
LinkedTo(f) == funcs[f].env

(* Any other function is entered anew, unless the caller has a generator   *)
(* of the same address: that goes on.                                      *)
CallFunction(op, f, n) ==
    LET address == funcs[f].address
        resumed == GetGenerator(stack, address)
        k == NewKernel(1)
    IN /\ Executes(op)
       /\ funcs[f].kind \in {"normal", "lambda", "promise"} /\ ~Answered(f)
       /\ IF resumed = Nil
          THEN /\ Becomes(Finish(op, PushNew(Next1(stack), New(address, n, <<"main", 0>>, FALSE, k))))
               /\ Environments([j \in DOMAIN kernels \cup {k} |->
                                  IF j = k THEN LinkedTo(f) ELSE kernels[j]])
          ELSE /\ Becomes(Finish(op, Push(PickGenerator(Next1(stack), resumed, n), resumed)))
               /\ UNCHANGED kernels
       /\ instr' = <<op, address, n>>
       /\ careful' = [careful EXCEPT !.plain = @ /\ (TailOp(op) => Conts = {})]
       /\ UNCHANGED <<funcs, traced, held, status, program, lowest>>

(* How many frames survive.                                                *)
Preserved(f) == IF Len(funcs[f].snap) < funcs[f].turningPoint THEN Len(funcs[f].snap)
                ELSE funcs[f].turningPoint

(* Mutant: one frame too few is kept, and made anew with an empty stack. *)
GoBackLow(f, n) ==
    LET snap == PatchTraps(Next1(stack), funcs[f].snap)
        low == IF Preserved(f) > 1 THEN Preserved(f) - 1 ELSE 1
        back == Restore(Crush(Next1(stack), low), snap, low,
                        [k \in 1 .. Len(snap) |-> NewKernel(k)])
    IN PushNew(SetTrap(back, snap),
               New(funcs[f].address, n, <<"main", 0>>, FALSE, NewKernel(Len(snap) + 1)))

(* The stack is cut down to the frames that were never left since, these   *)
(* are wound back, the others made anew, and the continuation's own        *)
(* function entered on top.  A frame that is made anew, and the            *)
(* function's, has an environment that continues no other.                 *)
GoBack(f, n) ==
    LET snap == PatchTraps(Next1(stack), funcs[f].snap)
        envs == [k \in 1 .. Len(snap) |-> NewKernel(k)]
        back == Restore(Crush(Next1(stack), Preserved(f)), snap, Preserved(f), envs)
    IN PushNew(SetTrap(back, snap),
               New(funcs[f].address, n, <<"main", 0>>, FALSE, NewKernel(Len(snap) + 1)))

CallContinuation(op, f, n) ==
    /\ Executes(op) /\ funcs[f].kind = "cont"
    /\ IF Preserved(f) > stack.size THEN Fault
       ELSE LET s == Finish(op, GoBack(f, n))
            IN /\ Becomes(s)
               /\ Environments([k \in DOMAIN kernels \cup {s.frame[i].env : i \in DOMAIN s.frame} |->
                                  IF k \in DOMAIN kernels THEN kernels[k] ELSE Nil])
               /\ funcs' = [funcs EXCEPT ![f].snap = PatchTraps(stack, @)]
               /\ instr' = <<"CONT", f>>
               /\ careful' = [careful EXCEPT !.plain = @ /\ ~TailOp(op)]
               /\ Lowest(Preserved(f))
               /\ UNCHANGED <<traced, held, status, program>>
-----------------------------------------------------------------------------
(* RETURN hands the value to the caller and frees the frame; YIELD keeps   *)
(* the frame, with the value still on its computing stack.  At the bottom  *)
(* there is no caller: both end the thread.                                *)
HandOver(s, v) == IF Caller(s) = Nil THEN s ELSE PushOn(s, Caller(s), v)
Leaves(op, s) ==
    /\ Becomes(s) /\ Lowest(s.size) /\ Update(s.size) /\ instr' = <<op>>
    /\ UNCHANGED <<kernels, held, program, careful>>
RETURN ==
    /\ Executes("RETURN") /\ T.stack # <<>>
    /\ Leaves("RETURN", Pop(HandOver(stack, Last(T.stack))))
YIELD ==
    /\ Executes("YIELD") /\ T.stack # <<>>
    /\ IF Caller(stack) = Nil THEN Leaves("RETURN", Pop(stack))
       ELSE Leaves("YIELD", Suspend(HandOver(Next1(stack), Last(T.stack))))
RETNONE ==
    /\ Executes("RETNONE")
    /\ Leaves("RETNONE", Pop(HandOver(stack, Null)))

RETURNTO ==
    /\ Executes("RETURNTO") /\ Caller(stack) # Nil
    /\ Becomes([Next1(stack) EXCEPT !.frame[Caller(stack)].pc[2] = 0])
    /\ instr' = <<"RETURNTO">>
    /\ UNCHANGED <<funcs, kernels, traced, held, status, program, lowest, careful>>

(* The top n values, from the top down, move to the caller.                *)
Lifted(n) ==
    LET s == Next1(stack)
        lift[k \in 0 .. n] ==
          IF k = 0 THEN s
          ELSE PopOff(PushOn(lift[k - 1], Caller(s), Last(Top(lift[k - 1]).stack)), s.top)
    IN lift[n]
LIFT(n) ==
    /\ Executes("LIFT")
    /\ Caller(stack) # Nil /\ Len(T.stack) >= n
    /\ Becomes(Lifted(n))
    /\ instr' = <<"LIFT", n>>
    /\ UNCHANGED <<funcs, kernels, traced, held, status, program, lowest, careful>>

(* A trap springs once, and only where a continuation has set it.          *)
TRAPSET ==
    /\ Executes("TRAPSET")
    /\ Becomes([Next1(stack) EXCEPT !.frame[stack.top].trapPc = <<T.pc[1], 0>>])
    /\ instr' = <<"TRAPSET">>
    /\ UNCHANGED <<funcs, kernels, traced, held, status, program, lowest, careful>>
TRAP ==
    /\ Executes("TRAP")
    /\ Becomes(IF T.trapOn
               THEN [stack EXCEPT !.frame[stack.top].pc = T.trapPc,
                                  !.frame[stack.top].trapOn = FALSE]
               ELSE Next1(stack))
    /\ instr' = <<"TRAP">>
    /\ careful' = [careful EXCEPT !.plain = @ /\ (T.trapOn => T.trapPc[1] = T.pc[1])]
    /\ UNCHANGED <<funcs, kernels, traced, held, status, program, lowest>>

(* The first result is kept, and the environment it was made in let go.    *)
WithAnswer(f, v) == IF funcs[f].cached # <<>> THEN funcs[f]
                    ELSE [funcs[f] EXCEPT !.cached = <<v>>, !.env = Nil]

(* An environment continues this one.                                      *)
Continued(k) == k # Nil /\ \E j \in DOMAIN kernels : kernels[j] = k

(* The promise and the result are on the stack, and both remain there.     *)
PROMC(f, v) ==
    /\ Executes("PROMC") /\ funcs[f].kind = "promise"
    /\ funcs' = [funcs EXCEPT ![f] = WithAnswer(f, v)]
    /\ Becomes(PushOn(PushOn(Next1(stack), stack.top, Fn(f)), stack.top, v))
    /\ instr' = <<"PROMC", Fn(f), v>>
    /\ careful' = [careful EXCEPT !.drop = @ /\ (Answered(f) \/ ~Continued(funcs[f].env))]
    /\ UNCHANGED <<kernels, traced, held, status, program, lowest>>

(* No value to return, no caller to return to, or operands of other types. *)
Fails ==
    /\ status = "running"
    /\ \/ program.ops \cap {"RETURN", "YIELD"} # {} /\ T.stack = <<>>
       \/ program.ops \cap {"RETURNTO", "LIFT"} # {} /\ Caller(stack) = Nil
       \/ program.ops \cap {"CALL", "TAILCALL", "PROMC"} # {}
    /\ status' = "error" /\ instr' = <<"fails">>
    /\ UNCHANGED <<stack, funcs, kernels, traced, held, program, lowest, careful>>
-----------------------------------------------------------------------------
(* A collection frees what its marks do not reach: from variables and      *)
(* frames, suspended ones included when their caller is on the stack.  The *)
(* walk over an environment marks what is in those it continues, not       *)
(* those themselves.                                                       *)
MarkedFrames == LET running == ToSet(Frames(stack))
                IN running \cup UNION {ToSet(Generators(stack, i)) : i \in running}
FuncsIn(values) == {f \in DOMAIN funcs : Fn(f) \in ToSet(values)}

(* Mutant: the marker of functions forgets the answer of a promise. *)
MarksThroughNoAnswer(f) == UNION {FuncsIn(funcs[f].snap[k].stack) : k \in DOMAIN funcs[f].snap}

MarksThrough(f) == FuncsIn(funcs[f].cached)
                     \cup UNION {FuncsIn(funcs[f].snap[k].stack) : k \in DOMAIN funcs[f].snap}
MarkedFuncs ==
    LET reach[n \in 0 .. Cardinality(DOMAIN funcs)] ==
          IF n = 0 THEN held \cup UNION {FuncsIn(stack.frame[i].stack) : i \in MarkedFrames}
          ELSE reach[n - 1] \cup UNION {MarksThrough(f) : f \in reach[n - 1]}
    IN reach[Cardinality(DOMAIN funcs)] \cap DOMAIN funcs
MarkedKernels == {stack.frame[i].env : i \in MarkedFrames}
                   \cup {funcs[f].env : f \in MarkedFuncs}
EnvChain(k) ==          (* up to the end, or to one that was freed *)
    LET up[n \in 0 .. Cardinality(DOMAIN kernels)] ==
          IF n = 0 THEN {k}
          ELSE up[n - 1] \cup {kernels[j] : j \in up[n - 1] \cap DOMAIN kernels}
    IN up[Cardinality(DOMAIN kernels)] \ {Nil}

(* Continuations that go leave the list, in the order they are collected.  *)
Untraced(order) ==
    LET left[n \in 0 .. Len(order)] ==
          IF n = 0 THEN traced ELSE RemoveItem(left[n - 1], funcs[order[n]].item)
    IN left[Len(order)]
Collect ==
    LET dead == DOMAIN funcs \ MarkedFuncs
        untrace == {f \in dead : funcs[f].item # NoItem}
        gone == DOMAIN kernels \ MarkedKernels
    IN /\ Executes("collect") /\ dead \cup gone # {}
       /\ instr' = <<"collect">>
       /\ IF \/ ~Sound(traced) /\ untrace # {}
             \/ \E k \in MarkedKernels : ~(EnvChain(k) \subseteq DOMAIN kernels)
          THEN status' = "fault" /\ UNCHANGED <<funcs, kernels, traced, lowest, careful>>
          ELSE /\ \E order \in SetToSeqs(untrace) : traced' = Untraced(order)
               /\ funcs' = [f \in MarkedFuncs |-> funcs[f]]
               /\ lowest' = [f \in DOMAIN lowest \ dead |-> lowest[f]]
               /\ kernels' = [k \in DOMAIN kernels \ gone |-> kernels[k]]
               /\ careful' = [careful EXCEPT
                    !.removed = IF @ + Cardinality(untrace) < 2 THEN @ + Cardinality(untrace) ELSE 2,
                    !.met = @ /\ \A i \in DOMAIN stack.frame \ ToSet(Frames(stack)) :
                                     Generators(stack, i) = <<>>]
               /\ UNCHANGED status
       /\ UNCHANGED <<stack, held, program>>

(* The variable that held a function is given another value.               *)
Discard(f) ==
    /\ Executes("discard") /\ f \in held
    /\ held' = held \ {f}
    /\ careful' = [careful EXCEPT !.drop = @ /\ ~Continued(funcs[f].env)]
    /\ instr' = <<"discard">>
    /\ UNCHANGED <<stack, funcs, kernels, traced, status, program, lowest>>
-----------------------------------------------------------------------------
Next ==
    \/ \E v \in Values : PUSH(v)
    \/ POP
    \/ FUNCMK
    \/ \E a \in Addresses : NFUNCMK(a) \/ LAMBDAMK(a) \/ PROMMK(a) \/ CONTMK(a)
    \/ \E op \in {"CALL", "TAILCALL"}, f \in held :
         \/ \E v \in Answers(f) : CallAnswers(op, f, v)
         \/ \E n \in program.args : CallFunction(op, f, n) \/ CallContinuation(op, f, n)
    \/ RETURN \/ YIELD \/ RETNONE \/ RETURNTO
    \/ \E n \in 1 .. program.height : LIFT(n)
    \/ TRAPSET \/ TRAP
    \/ \E f \in held, v \in Values : PROMC(f, v)
    \/ Fails
    \/ Collect
    \/ \E f \in held : Discard(f)
Spec == Init /\ [][Next]_vars
-----------------------------------------------------------------------------
TypeOK ==
    /\ status \in {"running", "error", "fault", "ended"}
    /\ stack.top \in DOMAIN stack.frame \cup {Nil}
    /\ \A i \in DOMAIN stack.frame :
         LET f == stack.frame[i]
         IN /\ {f.next, f.prev, f.gBegin, f.gEnd} \subseteq DOMAIN stack.frame \cup {Nil}
            /\ f.stack \in Seq({Num(0), Num(1), Null} \cup {Fn(g) : g \in 1 .. program.funcs})
    /\ \A f \in DOMAIN funcs : funcs[f].item \in DOMAIN traced.item \cup {NoItem}
    /\ Traced(traced) \subseteq DOMAIN traced.item /\ held \subseteq DOMAIN funcs

(* The list a walk along next meets is what a walk along prev meets, from  *)
(* its end to its beginning.                                               *)
Linked(order, begin, end) ==
    /\ begin = (IF order = <<>> THEN Nil ELSE Head(order))
    /\ end = (IF order = <<>> THEN Nil ELSE Last(order))
    /\ \A k \in DOMAIN order :
         stack.frame[order[k]].prev = IF k = 1 THEN Nil ELSE order[k - 1]

(* Every frame is on the running stack or in one list of generators, never *)
(* in two places, and both kinds of list are whole: the next and prev of   *)
(* all frames agree and the counters count them, whatever was pushed,      *)
(* suspended, picked out of the middle, merged or crushed before           *)
(* (vm_infrastructure.c, the moves in OP_YIELD and OP_CALL).               *)
FramesInOnePlace ==
    LET list(o) == IF o = Nil THEN Frames(stack) ELSE Generators(stack, o)
        places == UNION {{o} \X DOMAIN list(o) : o \in DOMAIN stack.frame \cup {Nil}}
        at(p) == list(p[1])[p[2]]
    IN /\ {at(p) : p \in places} = DOMAIN stack.frame
       /\ \A p, q \in places : at(p) = at(q) => p = q
       /\ Linked(Frames(stack), stack.bottom, stack.top) /\ Len(Frames(stack)) = stack.size
       /\ \A i \in DOMAIN stack.frame :
            /\ Linked(Generators(stack, i), stack.frame[i].gBegin, stack.frame[i].gEnd)
            /\ Len(Generators(stack, i)) = stack.frame[i].gSize

(* What a running frame can still reach has not been collected: the        *)
(* environments its variables are looked up in, and the functions on its   *)
(* computing stack.  The environments a frame continues are only marked by *)
(* function objects, and of the suspended frames only those are marked     *)
(* whose caller is on the stack, not those kept in them.  So this holds as *)
(* long as no function object lets go of an environment that another one   *)
(* continues, and no collection finds a suspended frame with generators of *)
(* its own (virtual_machine_marks_thread in gc/vm_gc.c, the markers of     *)
(* vm_object_func.c and vm_object_env_ent.c).                              *)
NothingReachableIsFreed ==
    careful.drop /\ careful.met =>
      \A i \in ToSet(Frames(stack)) :
        /\ EnvChain(stack.frame[i].env) \subseteq DOMAIN kernels
        /\ \A f \in DOMAIN funcs : funcs[f].env \in DOMAIN kernels \cup {Nil}
        /\ \A v \in ToSet(stack.frame[i].stack) : v[1] = "fn" => v[2] \in DOMAIN funcs

(* Until two continuations have been collected off it, the list holds just *)
(* the continuations that are told they are on it (the field               *)
(* continuation_tracing_item; vm_env.c).                                   *)
TracedAgree ==
    careful.removed < 2 =>
      /\ Sound(traced)
      /\ Traced(traced) = {funcs[f].item : f \in DOMAIN funcs} \ {NoItem}
      /\ \A f \in DOMAIN funcs :
           funcs[f].item # NoItem => Owner(traced, funcs[f].item) = f

(* A continuation that is alone goes back to frames that are still there:  *)
(* its turning point is the lowest height the stack has had since it was   *)
(* made, and it never runs off the stack (the comment on three parts in    *)
(* vm_cpu_control_cont.c).  A collection that looks up an environment that *)
(* was freed is a fault, too, which takes the care described above.        *)
LoneContinuationFits ==
    program.conts = 1 /\ careful.drop /\ careful.met =>
      /\ status # "fault"
      /\ status = "running" => \A f \in Conts : funcs[f].turningPoint = lowest[f]

(* A frame executes the function it was entered in, also after a           *)
(* continuation has wound it back, when no frame was replaced by a tail    *)
(* call since that continuation was made.                                  *)
FramesKeepTheirFunction ==
    careful.plain /\ program.conts < 2 =>
      \A i \in ToSet(Frames(stack)) :
        stack.frame[i].pc[1] = stack.frame[i].start[1]

(* Frames and traced continuations are linked into lists that agree with   *)
(* what the objects say of themselves, and a frame stays in its function.  *)
Consistent == TypeOK /\ FramesInOnePlace /\ TracedAgree /\ FramesKeepTheirFunction

(* Calling a continuation brings every frame back to its place in the text *)
(* (only a bottom frame that is alone stays where it is), and the frames   *)
(* that were never left to the height of their computing stack and to the  *)
(* value on top of it.                                                     *)
ContinuationWindsBack ==
    [][instr'[1] = "CONT" /\ careful'.plain =>
         LET f == instr'[2]
             order == Frames(stack')
         IN /\ Len(order) = Len(funcs[f].snap) + 1
            /\ \A k \in DOMAIN funcs[f].snap :
                 LET frame == stack'.frame[order[k]]
                     snap == funcs[f].snap[k]
                 IN /\ \/ frame.pc = snap.pc
                       \/ k = 1 /\ Preserved(f) = 1
                    /\ k <= Preserved(f) =>
                         /\ Len(frame.stack) = Len(snap.stack)
                         /\ snap.stack # <<>> => Last(frame.stack) = Last(snap.stack)]_vars

(* The frame at i, with the generators it keeps and those kept in them.    *)
Tree(s) ==
    LET tree[n \in 0 .. Cardinality(DOMAIN s.frame)] ==
          IF n = 0 THEN [i \in DOMAIN s.frame |-> <<>>]
          ELSE LET inner == tree[n - 1]
               IN [i \in DOMAIN s.frame |->
                     LET f == s.frame[i]
                         kept == Generators(s, i)
                     IN [start |-> f.start, pc |-> f.pc, args |-> f.args, stack |-> f.stack,
                         gens |-> [k \in DOMAIN kept |-> inner[kept[k]]]]]
        order == Frames(s)
    IN [k \in DOMAIN order |-> tree[Cardinality(DOMAIN s.frame)][order[k]]]
Promised == INSTANCE FrameTree WITH frames <- Tree(stack), length <- program.pcs

(* The pointers implement the order: calls, returns, generators, tail      *)
(* calls and the values handed over do to the linked frames what they do   *)
(* to a tree of them (OP_CALL to OP_LIFT over the lists of                 *)
(* vm_infrastructure.c).                                                   *)
FollowsTheTree == Promised!Spec
=============================================================================
