---------------------------- MODULE CallsProofs -----------------------------
(* Proofs about Calls.tla, for every program: every text, and every number *)
(* of frames, function objects, continuations and environments. The        *)
(* invariant IInv has four parts: Shape (the stack and the function        *)
(* objects are well formed), Reached (what is in use has not been          *)
(* collected), Tracing (the list of traced continuations can be walked)    *)
(* and Lone (a continuation that is alone goes back to frames that are     *)
(* still there). One lemma for each instruction shows that it is kept; the *)
(* last section derives the properties.                                    *)
EXTENDS CallsStackProofs

(* The function objects that a value may name: those there are, or any     *)
(* once the program was not careful.                                       *)
Live == IF careful.drop /\ careful.met THEN DOMAIN funcs ELSE 1 .. program.funcs

(* While this holds, all frames are in their function.                     *)
Home == careful.plain /\ program.conts < 2

(* The type of careful.                                                    *)
Cares == [plain : BOOLEAN, drop : BOOLEAN, met : BOOLEAN, removed : 0 .. 2]

(* The stack and the function objects are well formed.                     *)
Shape ==
    /\ program \in Programs
    /\ status \in {"running", "error", "fault", "ended"}
    /\ careful \in Cares
    /\ Going(stack, Worths(Live), Home)
    /\ status = "running" => stack.size # 0
    /\ held \subseteq DOMAIN funcs /\ DOMAIN funcs \subseteq 1 .. program.funcs
    /\ \A f \in DOMAIN funcs : IsFunc(funcs[f], Worths(Live))

(* As long as the program is careful nothing in use has been collected,    *)
(* and an environment that is continued is continued by a function object  *)
(* in a variable, so that the next collection keeps it.                    *)
Reached ==
    careful.drop /\ careful.met =>
      /\ Envs(stack) \subseteq DOMAIN kernels
      /\ \A f \in DOMAIN funcs : funcs[f].env \in DOMAIN kernels \cup {Nil}
      /\ \A k \in DOMAIN kernels : kernels[k] = Nil \/ \E f \in held : funcs[f].env = kernels[k]

(* A list of finitely many items is the record that its fields make up.    *)
IsTrace(t) ==
    /\ t = [item |-> t.item, begin |-> t.begin, end |-> t.end]
    /\ t.item = [i \in DOMAIN t.item |-> t.item[i]]
    /\ \A i \in DOMAIN t.item : t.item[i] = [func |-> t.item[i].func, prev |-> t.item[i].prev, next |-> t.item[i].next]
    /\ IsFiniteSet(DOMAIN t.item) /\ DOMAIN t.item \subseteq Nat \ {0}

(* The list is what q lists, along next.                                   *)
Strung(t, q) ==
    /\ Len(q) \in Nat /\ DOMAIN q = 1 .. Len(q)
    /\ DOMAIN t.item = {q[k] : k \in 1 .. Len(q)}
    /\ \A j, k \in 1 .. Len(q) : q[j] = q[k] => j = k
    /\ t.begin = (IF Len(q) = 0 THEN NoItem ELSE q[1])
    /\ t.end = (IF Len(q) = 0 THEN NoItem ELSE q[Len(q)])
    /\ \A k \in 1 .. Len(q) : t.item[q[k]].next = (IF k = Len(q) THEN NoItem ELSE q[k + 1])

(* The links back agree with q: the first removal off the list damages     *)
(* one.                                                                    *)
Backed(t, q) == \A k \in 1 .. Len(q) : t.item[q[k]].prev = (IF k = 1 THEN NoItem ELSE q[k - 1])

(* Every item belongs to the continuation that says so.                    *)
Owns == \A i \in DOMAIN traced.item : /\ Owner(traced, i) \in DOMAIN funcs
                                      /\ funcs[Owner(traced, i)].item = i

(* An item is claimed by one continuation at most, and only by those.      *)
Items ==
    /\ IsTrace(traced)
    /\ \A f \in DOMAIN funcs : /\ funcs[f].item \in DOMAIN traced.item \cup {NoItem}
                               /\ funcs[f].item # NoItem => funcs[f].kind = "cont"
    /\ \A f, g \in DOMAIN funcs : funcs[f].item = funcs[g].item /\ funcs[f].item # NoItem => f = g

(* Until two continuations have been removed, or as long as there is only  *)
(* one at a time, the list can be walked; before the first removal, in     *)
(* both directions.                                                        *)
Tracing ==
    /\ Items
    /\ careful.removed < 2 \/ program.conts < 2 =>
         /\ \E q : /\ Strung(traced, q)
                   /\ careful.removed = 0 \/ program.conts < 2 => Backed(traced, q)
         /\ Owns

(* The one continuation there is: its turning point is the lowest height   *)
(* since it was made, and what is left of the frames of its snapshot is in *)
(* its function.                                                           *)
Single(f) ==
    /\ lowest[f] \in Nat /\ lowest[f] <= stack.size /\ lowest[f] <= Len(funcs[f].snap)
    /\ status = "running" =>
         /\ funcs[f].turningPoint = lowest[f] /\ lowest[f] # 0
         /\ funcs[f].item # NoItem \/ funcs[f].turningPoint = 1
    /\ Home => AtHome(funcs[f].snap, stack, lowest[f])

(* lowest speaks of the continuations, and one that is alone fits.         *)
Lone ==
    /\ DOMAIN lowest = Conts
    /\ program.conts < 2 =>
         /\ \A f, g \in Conts : f = g
         /\ \A f \in Conts : Single(f)
         /\ careful.drop /\ careful.met => status # "fault"

(* The inductive invariant. Consistent alone is not inductive: that the    *)
(* list can be walked after a removal needs the links back before it, that *)
(* a continuation winds frames back into their function needs the snapshot *)
(* to agree with the frames below the turning point, and that collections  *)
(* free nothing in use needs the environments of suspended frames and of   *)
(* function objects as well.                                               *)
IInv == Shape /\ Reached /\ Tracing /\ Lone
-----------------------------------------------------------------------------
(* More function objects, more values.                                     *)
LEMMA WorthsLess == ASSUME NEW L, NEW M, L \subseteq M PROVE Worths(L) \subseteq Worths(M)
  BY DEF Worths

(* Snapshots of fewer values are snapshots of more.                        *)
LEMMA SnappedLess ==
    ASSUME NEW V, NEW W, V \subseteq W, NEW x, AllSnapped(x, V)
    PROVE  AllSnapped(x, W)
<1>1. Seq(V) \subseteq Seq(W)
  OBVIOUS
<1> QED BY <1>1 DEF AllSnapped, Snapped

(* Function objects of fewer values, too.                                  *)
LEMMA FuncLess ==
    ASSUME NEW V, NEW W, V \subseteq W, NEW g, IsFunc(g, V)
    PROVE  IsFunc(g, W)
<1>1. Seq(V) \subseteq Seq(W)
  OBVIOUS
<1>2. AllSnapped(g.snap, W)
  BY SnappedLess DEF IsFunc
<1> QED BY <1>1, <1>2 DEF IsFunc

(* Facts about the program and the function objects.                       *)
LEMMA ProgramIs ==
    ASSUME Shape
    PROVE  /\ program.funcs \in Nat /\ program.conts \in Nat /\ program.pcs \in Nat \ {0} /\ program.height \in Nat
           /\ DOMAIN funcs \subseteq Live
           /\ IsFiniteSet(DOMAIN funcs) /\ Cardinality(DOMAIN funcs) \in Nat
  <1>1. program.funcs \in Nat /\ program.conts \in Nat /\ program.pcs \in Nat \ {0} /\ program.height \in Nat
    BY ProgramsAssumption DEF Shape
  <1>2. DOMAIN funcs \subseteq Live /\ DOMAIN funcs \subseteq 1 .. program.funcs
    BY DEF Live, Shape
  <1>3. IsFiniteSet(1 .. program.funcs)
    <2>1. program.funcs \in Int /\ 1 \in Int
      BY <1>1
    <2> DEFINE n == program.funcs
    <2> HIDE DEF n
    <2>2. n \in Int => IsFiniteSet(1 .. n)
      BY FS_Interval
    <2> QED BY <2>1, <2>2 DEF n
  <1> QED BY <1>1, <1>2, <1>3, FS_Subset, FS_CardinalityType
-----------------------------------------------------------------------------
(* The program is the same, and no more careful than before.               *)
Less == /\ careful' \in Cares
        /\ careful'.plain => careful.plain
        /\ careful'.drop => careful.drop
        /\ careful'.met => careful.met
        /\ program' = program

(* Values that were there before are there after.                          *)
LEMMA LiveMore ==
    ASSUME Shape, Less, DOMAIN funcs \subseteq DOMAIN funcs'
    PROVE  /\ Live \subseteq Live' /\ Worths(Live) \subseteq Worths(Live') /\ (Home' => Home)
  <1>1. Live \subseteq Live'
    BY DEF Live, Shape, Less
  <1>2. Home' => Home
    BY DEF Home, Less
  <1>3. Worths(Live)' = Worths(Live')
    BY DEF Worths, Fn
  <1> QED BY <1>1, <1>2, WorthsLess

(* What a step must show for the stack and the function objects.           *)
LEMMA KeepsShape ==
    ASSUME Shape, Less, DOMAIN funcs \subseteq DOMAIN funcs', DOMAIN funcs' \subseteq 1 .. program.funcs,
           held' \subseteq DOMAIN funcs', \A f \in DOMAIN funcs' : IsFunc(funcs'[f], Worths(Live)'),
           status' \in {"running", "error", "fault", "ended"}, Going(stack', Worths(Live), Home'),
           status' = "running" => stack'.size # 0
    PROVE  Shape'
<1>1. Worths(Live) \subseteq Worths(Live')
  BY LiveMore
<1>2. Home' => Home'
  OBVIOUS
<1>3. Going(stack', Worths(Live'), Home')
  BY <1>1, <1>2, GoingLess
<1>4. program' \in Programs /\ careful' \in Cares /\ DOMAIN funcs' \subseteq 1 .. program'.funcs
  BY DEF Shape, Less
<1>5. Worths(Live)' = Worths(Live') /\ Going(stack, Worths(Live), Home)' = Going(stack', Worths(Live'), Home')
  BY DEF Worths, Fn, Going, Fine, Runs
<1> QED BY <1>3, <1>4, <1>5 DEF Shape

(* What the environments of the next state continue.                       *)
Joins(X) ==
    careful.drop /\ careful.met =>
      /\ DOMAIN kernels \subseteq DOMAIN kernels' /\ X \subseteq DOMAIN kernels'
      /\ \A k \in DOMAIN kernels' : \/ kernels'[k] = Nil
                                    \/ k \in DOMAIN kernels /\ kernels'[k] = kernels[k]
                                    \/ \E f \in held : funcs[f].env = kernels'[k]

(* What a step that keeps the function objects must show for the           *)
(* environments.                                                           *)
LEMMA KeepsReached ==
    ASSUME Reached, Less, NEW X, Envs(stack') \subseteq X \cup Envs(stack), Joins(X), held' = held,
           DOMAIN funcs' = DOMAIN funcs, \A f \in DOMAIN funcs : funcs'[f].env = funcs[f].env,
           held \subseteq DOMAIN funcs
    PROVE  Reached'
<1> SUFFICES ASSUME careful'.drop, careful'.met
             PROVE  /\ Envs(stack') \subseteq DOMAIN kernels'
                    /\ \A f \in DOMAIN funcs' : funcs'[f].env \in DOMAIN kernels' \cup {Nil}
                    /\ \A k \in DOMAIN kernels' : kernels'[k] = Nil \/ \E f \in held' : funcs'[f].env = kernels'[k]
  <2>1. Envs(stack)' = Envs(stack')
    BY DEF Envs
  <2> QED BY <2>1 DEF Reached
<1>1. careful.drop /\ careful.met
  BY DEF Less
<1>2. /\ Envs(stack) \subseteq DOMAIN kernels
      /\ \A f \in DOMAIN funcs : funcs[f].env \in DOMAIN kernels \cup {Nil}
      /\ \A k \in DOMAIN kernels : kernels[k] = Nil \/ \E f \in held : funcs[f].env = kernels[k]
  BY <1>1 DEF Reached
<1>3. /\ DOMAIN kernels \subseteq DOMAIN kernels' /\ X \subseteq DOMAIN kernels'
      /\ \A k \in DOMAIN kernels' : \/ kernels'[k] = Nil
                                    \/ k \in DOMAIN kernels /\ kernels'[k] = kernels[k]
                                    \/ \E f \in held : funcs[f].env = kernels'[k]
  BY <1>1 DEF Joins
<1>4. \A k \in DOMAIN kernels' : kernels'[k] = Nil \/ \E f \in held : funcs[f].env = kernels'[k]
  BY <1>2, <1>3
<1> QED BY <1>2, <1>3, <1>4

(* The list, when the step leaves it alone.                                *)
LEMMA KeepsTracing ==
    ASSUME Tracing, traced' = traced, careful'.removed = careful.removed, program' = program,
           DOMAIN funcs' = DOMAIN funcs,
           \A f \in DOMAIN funcs : funcs'[f].item = funcs[f].item /\ funcs'[f].kind = funcs[f].kind
    PROVE  Tracing'
<1>1. Items'
  BY DEF Items, Tracing, IsTrace
<1>2. Owns => Owns'
  BY DEF Owns, Owner
<1> QED BY <1>1, <1>2 DEF Tracing, Strung, Backed

(* What a step that makes no function object must show for continuations.  *)
LEMMA KeepsLone ==
    ASSUME Shape, Lone, Less, status' = "running" => status = "running", DOMAIN lowest' = DOMAIN lowest,
           status' = "fault" /\ program.conts < 2 /\ careful.drop /\ careful.met => status = "fault",
           DOMAIN funcs' = DOMAIN funcs, \A f \in DOMAIN funcs : funcs'[f].kind = funcs[f].kind,
           \A f \in DOMAIN funcs : Len(funcs'[f].snap) = Len(funcs[f].snap),
           \A f \in DOMAIN funcs : \A k \in 1 .. Len(funcs[f].snap) : funcs'[f].snap[k].pc = funcs[f].snap[k].pc,
           \A f \in DOMAIN funcs : funcs'[f].item = funcs[f].item /\ funcs'[f].turningPoint = funcs[f].turningPoint,
           program.conts < 2 => \A f \in Conts : lowest'[f] = lowest[f] /\ lowest[f] <= stack'.size,
           NEW n \in Nat, NEW X, NEW V, Fares(stack, stack', n, stack'.size, X, V, Home'),
           Home' => \A f \in Conts : lowest[f] <= n
    PROVE  Lone'
<1>1. Conts' = Conts
  BY DEF Conts
<1>2. program' = program
  BY DEF Less
<1>3. ASSUME program.conts < 2 PROVE \A f \in Conts : Single(f)'
  <2> SUFFICES ASSUME NEW f \in Conts PROVE Single(f)'
    OBVIOUS
  <2>1. Single(f) /\ f \in DOMAIN funcs /\ lowest'[f] = lowest[f] /\ lowest[f] <= stack'.size
    BY <1>3 DEF Lone, Conts
  <2>2. lowest'[f] \in Nat /\ lowest'[f] <= stack'.size /\ lowest'[f] <= Len(funcs'[f].snap)
    BY <2>1 DEF Single
  <2>3. ASSUME status' = "running"
        PROVE  /\ funcs'[f].turningPoint = lowest'[f] /\ lowest'[f] # 0
               /\ funcs'[f].item # NoItem \/ funcs'[f].turningPoint = 1
    BY <2>1, <2>3 DEF Single
  <2>4. ASSUME Home' PROVE AtHome(funcs'[f].snap, stack', lowest'[f])
    <3>1. Home /\ lowest[f] <= n
      BY <2>4, <1>2 DEF Home, Less
    <3>2. AtHome(funcs[f].snap, stack, lowest[f]) /\ lowest[f] \in Nat
      BY <2>1, <3>1 DEF Single
    <3>3. stack'.size \in Nat /\ Len(funcs[f].snap) \in Nat /\ lowest[f] <= Len(funcs[f].snap)
      BY <2>1, GoingIs DEF Fares, Shape, IsFunc, AllSnapped, Single
    <3>4. ASSUME NEW k \in 1 .. lowest[f]
          PROVE  funcs'[f].snap[k].pc[1] = stack'.frame[Frames(stack')[k]].start[1]
      <4>1. k \in 1 .. Len(funcs[f].snap) /\ k \in 1 .. n
        BY <2>1, <3>1, <3>2, <3>3
      <4>2. funcs'[f].snap[k].pc = funcs[f].snap[k].pc
        BY <2>1, <4>1
      <4>3. /\ Frames(stack')[k] = Frames(stack)[k]
            /\ stack'.frame[Frames(stack)[k]].start = stack.frame[Frames(stack)[k]].start
        BY <4>1 DEF Fares
      <4>4. funcs[f].snap[k].pc[1] = stack.frame[Frames(stack)[k]].start[1]
        BY <3>2 DEF AtHome
      <4> QED BY <4>2, <4>3, <4>4
    <3> QED BY <2>1, <3>4 DEF AtHome
  <2>5. AtHome(funcs[f].snap, stack, lowest[f])' = AtHome(funcs'[f].snap, stack', lowest'[f])
    BY DEF AtHome, Frames, Walk
  <2> QED BY <2>2, <2>3, <2>4, <2>5 DEF Single
<1>4. program.conts < 2 /\ careful'.drop /\ careful'.met => status' # "fault"
  BY DEF Lone, Less
<1> QED BY <1>1, <1>2, <1>3, <1>4 DEF Lone
-----------------------------------------------------------------------------
(* An instruction that leaves function objects alone.                      *)
LEMMA Moved ==
    ASSUME IInv, status = "running", UNCHANGED <<funcs, traced, held, status, program, lowest>>,
           Less, careful'.removed = careful.removed, NEW n \in Nat, NEW X, stack'.size >= stack.size,
           Fares(stack, stack', n, stack'.size, X, Worths(Live), Home'),
           Home' => n = stack.size \/ Conts = {}, Joins(X)
    PROVE  IInv'
<1>1. Shape /\ Reached /\ Tracing /\ Lone
  BY DEF IInv
<1>2. Going(stack', Worths(Live), Home') /\ Envs(stack') \subseteq X \cup Envs(stack)
  BY DEF Fares
<1>3. stack.size \in Nat /\ stack.size # 0 /\ stack'.size \in Nat /\ held \subseteq DOMAIN funcs
  BY <1>1, <1>2, GoingIs DEF Shape
<1>4. Shape'
  <2>1. \A f \in DOMAIN funcs' : IsFunc(funcs'[f], Worths(Live)')
    <3>1. Worths(Live) \subseteq Worths(Live')  /\ Worths(Live)' = Worths(Live')
      BY <1>1, LiveMore DEF Worths, Fn
    <3> QED BY <1>1, <3>1, FuncLess DEF Shape
  <2> QED BY <1>1, <1>2, <1>3, <2>1, KeepsShape DEF Shape
<1>5. Reached'
  BY <1>1, <1>2, <1>3, KeepsReached
<1>6. Tracing'
  BY <1>1, KeepsTracing DEF Less
<1>7. Lone'
  <2>1. program.conts < 2 => \A f \in Conts : lowest[f] <= stack'.size /\ lowest[f] <= stack.size
    BY <1>1, <1>3 DEF Lone, Single
  <2>2. Home' => \A f \in Conts : lowest[f] <= n
    BY <2>1 DEF Home, Less
  <2>3. /\ DOMAIN lowest' = DOMAIN lowest /\ DOMAIN funcs' = DOMAIN funcs
        /\ \A f \in DOMAIN funcs : funcs'[f] = funcs[f]
        /\ status' = "running"
        /\ program.conts < 2 => \A f \in Conts : lowest'[f] = lowest[f] /\ lowest[f] <= stack'.size
    BY <2>1
  <2> QED BY <1>1, <2>2, <2>3, KeepsLone
<1> QED BY <1>4, <1>5, <1>6, <1>7 DEF IInv

(* A change that is fine is fine with less care.                           *)
LEMMA FaresLess ==
    ASSUME NEW s, NEW t, NEW n, NEW m, NEW X, NEW V, NEW home, Fares(s, t, n, m, X, V, home), NEW away, away => home
    PROVE  Fares(s, t, n, m, X, V, away)
<1>1. V \subseteq V
  OBVIOUS
<1>2. Going(t, V, home)
  BY DEF Fares
<1>3. Going(t, V, away)
  BY <1>1, <1>2, GoingLess
<1> QED BY <1>3 DEF Fares

(* An instruction that works on contents of frames only.                   *)
LEMMA Quiet ==
    ASSUME IInv, status = "running",
           UNCHANGED <<funcs, kernels, traced, held, status, program, lowest>>, Less, careful'.removed = careful.removed,
           Fares(stack, stack', stack.size, stack.size, {}, Worths(Live), Home')
    PROVE  IInv'
<1>1. stack'.size = stack.size /\ stack.size \in Nat /\ stack.size >= stack.size
  <2>1. Going(stack, Worths(Live), Home)
    BY DEF IInv, Shape
  <2> QED BY <2>1, GoingIs DEF Fares
<1>2. Joins({})
  BY DEF Joins
<1> QED BY <1>1, <1>2, Moved

(* What an instruction finds.                                              *)
LEMMA RunningIs ==
    ASSUME IInv, status = "running"
    PROVE  /\ Going(stack, Worths(Live), Home) /\ stack.size \in Nat /\ stack.size # 0
           /\ held \subseteq DOMAIN funcs /\ DOMAIN funcs \subseteq Live /\ DOMAIN funcs \subseteq 1 .. program.funcs
           /\ \A f \in DOMAIN funcs : IsFunc(funcs[f], Worths(Live)) /\ Fn(f) \in Worths(Live)
           /\ Values \subseteq Worths(Live) /\ Null \in Worths(Live) /\ HostValues \subseteq Worths(Live)
           /\ T = stack.frame[stack.top] /\ stack.top \in DOMAIN stack.frame /\ T.env \in Envs(stack)
           /\ Fine(T, Worths(Live), Home) /\ careful \in Cares
           /\ T.stack # <<>> => Last(T.stack) \in Worths(Live)
<1>1. Going(stack, Worths(Live), Home) /\ stack.size # 0 /\ held \subseteq DOMAIN funcs /\ careful \in Cares
      /\ \A f \in DOMAIN funcs : IsFunc(funcs[f], Worths(Live))
  BY DEF IInv, Shape
<1>2. stack.size \in Nat /\ stack.top \in DOMAIN stack.frame
  BY <1>1, GoingIs
<1>3. DOMAIN funcs \subseteq Live /\ DOMAIN funcs \subseteq 1 .. program.funcs
  BY ProgramIs DEF IInv, Shape
<1>4. /\ \A f \in DOMAIN funcs : Fn(f) \in Worths(Live)
      /\ Num(0) \in Worths(Live) /\ Num(1) \in Worths(Live) /\ Null \in Worths(Live)
  BY <1>3 DEF Worths
<1>5. Values \subseteq Worths(Live) /\ HostValues \subseteq Worths(Live)
  BY <1>1, <1>4 DEF Values, HostValues
<1>6. T = stack.frame[stack.top] /\ T.env \in Envs(stack) /\ Fine(T, Worths(Live), Home)
  BY <1>1, <1>2 DEF T, Top, Envs, Going
<1>7. T.stack # <<>> => Last(T.stack) \in Worths(Live)
  BY <1>6, ValuesSeq DEF Fine
<1> QED BY <1>1, <1>2, <1>3, <1>4, <1>5, <1>6, <1>7

(* The program is as careful as before.                                    *)
LEMMA SameLess ==
    ASSUME IInv, UNCHANGED <<careful, program>>
    PROVE  Less /\ Home' = Home
  BY DEF Less, IInv, Shape, Home

(* A step that may be one that is not plain.                               *)
LEMMA PlainLess ==
    ASSUME IInv, program' = program, NEW p \in BOOLEAN, careful' = [careful EXCEPT !.plain = careful.plain /\ p]
    PROVE  Less /\ careful'.removed = careful.removed /\ (Home' => Home /\ p) /\ careful'.drop = careful.drop /\ careful'.met = careful.met
<1>1. careful \in Cares
  BY DEF IInv, Shape
<1>2. careful' \in Cares /\ careful'.plain = (careful.plain /\ p) /\ careful'.drop = careful.drop /\ careful'.met = careful.met
      /\ careful'.removed = careful.removed
  BY <1>1 DEF Cares
<1> QED BY <1>2 DEF Less, Home
-----------------------------------------------------------------------------
(* PUSH keeps the invariant.                                               *)
LEMMA PUSHStays == ASSUME IInv, NEW v \in Values, PUSH(v) PROVE IInv'
<1> DEFINE s == PushOn(Next1(stack), stack.top, v)
<1>1. status = "running" /\ stack' = s
  BY DEF PUSH, Executes, Becomes
<1>2. UNCHANGED <<funcs, kernels, traced, held, status, program, lowest>> /\ UNCHANGED <<careful, program>>
  BY DEF PUSH
<1>3. Fares(stack, s, stack.size, stack.size, {}, Worths(Live), Home)
  BY <1>1, RunningIs, PushFares
<1> HIDE DEF s
<1> QED BY <1>1, <1>2, <1>3, SameLess, FaresLess, Quiet

(* POP keeps it.                                                           *)
LEMMA POPStays == ASSUME IInv, POP PROVE IInv'
<1> DEFINE s == PopOff(Next1(stack), stack.top)
<1>1. status = "running" /\ stack' = s /\ Top(stack).stack # <<>>
  BY DEF POP, Executes, Becomes, T
<1>2. UNCHANGED <<funcs, kernels, traced, held, status, program, lowest>> /\ UNCHANGED <<careful, program>>
  BY DEF POP
<1>3. Fares(stack, s, stack.size, stack.size, {}, Worths(Live), Home)
  BY <1>1, RunningIs, DropFares
<1> HIDE DEF s
<1> QED BY <1>1, <1>2, <1>3, SameLess, FaresLess, Quiet

(* A call that is answered at once keeps it.                               *)
LEMMA CallAnswersStays == ASSUME IInv, NEW op, NEW f \in held, NEW v \in Answers(f), CallAnswers(op, f, v) PROVE IInv'
<1> DEFINE s == PushOn(Next1(stack), stack.top, v)
<1>1. status = "running" /\ stack' = s
  BY DEF CallAnswers, Executes, Becomes
<1>2. UNCHANGED <<funcs, kernels, traced, held, status, program, lowest>> /\ UNCHANGED <<careful, program>>
  BY DEF CallAnswers
<1>3. v \in Worths(Live)
  <2>1. CASE funcs[f].kind = "external"
    BY <2>1, <1>1, RunningIs DEF Answers
  <2>2. CASE funcs[f].kind # "external"
    <3>1. v \in ToSet(funcs[f].cached) /\ IsFunc(funcs[f], Worths(Live))
      BY <2>2, <1>1, RunningIs DEF Answers
    <3>2. funcs[f].cached \in Seq(Worths(Live))
      BY <3>1 DEF IsFunc
    <3> QED BY <3>1, <3>2 DEF ToSet
  <2> QED BY <2>1, <2>2
<1>4. Fares(stack, s, stack.size, stack.size, {}, Worths(Live), Home)
  BY <1>1, <1>3, RunningIs, PushFares
<1> HIDE DEF s
<1> QED BY <1>1, <1>2, <1>4, SameLess, FaresLess, Quiet

(* RETURNTO keeps it.                                                      *)
LEMMA RETURNTOStays == ASSUME IInv, RETURNTO PROVE IInv'
<1> DEFINE s == [Next1(stack) EXCEPT !.frame[Caller(stack)].pc[2] = 0]
<1>1. status = "running" /\ stack' = s /\ Caller(stack) # Nil
  BY DEF RETURNTO, Executes, Becomes
<1>2. UNCHANGED <<funcs, kernels, traced, held, status, program, lowest>> /\ UNCHANGED <<careful, program>>
  BY DEF RETURNTO
<1>3. Fares(stack, s, stack.size, stack.size, {}, Worths(Live), Home)
  BY <1>1, RunningIs, ReturnToFares
<1> HIDE DEF s
<1> QED BY <1>1, <1>2, <1>3, SameLess, FaresLess, Quiet

(* LIFT keeps it.                                                          *)
LEMMA LIFTStays == ASSUME IInv, NEW n \in 1 .. program.height, LIFT(n) PROVE IInv'
<1> DEFINE s == Lifted(n)
<1>1. status = "running" /\ stack' = s /\ Caller(stack) # Nil /\ Len(T.stack) >= n
  BY DEF LIFT, Executes, Becomes
<1>2. UNCHANGED <<funcs, kernels, traced, held, status, program, lowest>> /\ UNCHANGED <<careful, program>>
  BY DEF LIFT
<1>0. n \in Nat
  OBVIOUS
<1>3. Fares(stack, s, stack.size, stack.size, {}, Worths(Live), Home)
  BY <1>0, <1>1, RunningIs, LiftFares
<1> HIDE DEF s
<1> QED BY <1>1, <1>2, <1>3, SameLess, FaresLess, Quiet

(* TRAPSET keeps it.                                                       *)
LEMMA TRAPSETStays == ASSUME IInv, TRAPSET PROVE IInv'
<1> DEFINE a == <<T.pc[1], 0>>
           s == [Next1(stack) EXCEPT !.frame[stack.top].trapPc = a]
<1>1. status = "running" /\ stack' = s
  BY DEF TRAPSET, Executes, Becomes
<1>2. UNCHANGED <<funcs, kernels, traced, held, status, program, lowest>> /\ UNCHANGED <<careful, program>>
  BY DEF TRAPSET
<1>4. Pair(a)
  BY DEF Pair
<1> HIDE DEF a
<1>3. Fares(stack, s, stack.size, stack.size, {}, Worths(Live), Home)
  BY <1>1, <1>4, RunningIs, TrapSetFares
<1> HIDE DEF s
<1> QED BY <1>1, <1>2, <1>3, SameLess, FaresLess, Quiet

(* TRAP keeps it; with the trap of another function the program is no      *)
(* longer plain.                                                           *)
LEMMA TRAPStays == ASSUME IInv, TRAP PROVE IInv'
<1> DEFINE p == (T.trapOn => T.trapPc[1] = T.pc[1])
           t == [stack EXCEPT !.frame[stack.top].pc = Top(stack).trapPc, !.frame[stack.top].trapOn = FALSE]
           u == Next1(stack)
<1>1. status = "running" /\ stack' = (IF T.trapOn THEN t ELSE u) /\ careful' = [careful EXCEPT !.plain = @ /\ p]
  BY DEF TRAP, Executes, Becomes, T
<1>2. UNCHANGED <<funcs, kernels, traced, held, status, program, lowest>> /\ program' = program
  BY DEF TRAP
<1>3. Less /\ careful'.removed = careful.removed /\ (Home' => Home /\ p)
  <2>1. p \in BOOLEAN
    OBVIOUS
  <2> HIDE DEF p
  <2>2. careful' = [careful EXCEPT !.plain = careful.plain /\ p]
    BY <1>1
  <2> QED BY <1>2, <2>1, <2>2, PlainLess
<1>4. Fares(stack, stack', stack.size, stack.size, {}, Worths(Live), Home')
  <2>1. CASE T.trapOn
    <3>1. Home' => Top(stack).trapPc[1] = Top(stack).pc[1]
      BY <2>1, <1>3 DEF T
    <3>2. Fares(stack, t, stack.size, stack.size, {}, Worths(Live), Home')
      BY <3>1, <1>1, <1>3, RunningIs, TrapFares, Zenon
    <3> HIDE DEF t
    <3> QED BY <1>1, <2>1, <3>2
  <2>2. CASE ~ T.trapOn
    <3>1. Fares(stack, u, stack.size, stack.size, {}, Worths(Live), Home)
      BY <1>1, RunningIs, Next1Fares
    <3>2. stack' = u
      BY <1>1, <2>2
    <3> HIDE DEF u
    <3> QED BY <1>3, <3>1, <3>2, FaresLess
  <2> QED BY <2>1, <2>2
<1> QED BY <1>1, <1>2, <1>3, <1>4, Quiet

(* A call of a function keeps it, be it entered anew or a generator that   *)
(* goes on, with a tail call or without.                                   *)
LEMMA CallFunctionStays ==
    ASSUME IInv, NEW op, NEW f \in held, NEW n, CallFunction(op, f, n) PROVE IInv'
<1> DEFINE p == (TailOp(op) => Conts = {})
           a == funcs[f].address
           k == NewKernel(1)
           i == GetGenerator(stack, a)
           main == <<"main", 0>>
           anew == Finish(op, PushNew(Next1(stack), New(a, n, main, FALSE, k)))
           again == Finish(op, Push(PickGenerator(Next1(stack), i, n), i))
           low == IF TailOp(op) THEN 0 ELSE stack.size
           high == IF TailOp(op) THEN stack.size ELSE stack.size + 1
           V == Worths(Live)
<1>1. /\ status = "running" /\ careful' = [careful EXCEPT !.plain = @ /\ p]
      /\ i = Nil => /\ stack' = anew
                    /\ kernels' = [j \in DOMAIN kernels \cup {k} |-> IF j = k THEN LinkedTo(f) ELSE kernels[j]]
      /\ i # Nil => stack' = again /\ kernels' = kernels
      /\ UNCHANGED <<funcs, traced, held, status, program, lowest>>
  BY DEF CallFunction, Executes, Becomes, Environments
<1>2. Less /\ careful'.removed = careful.removed /\ (Home' => Home /\ p)
  <2>1. p \in BOOLEAN
    OBVIOUS
  <2> HIDE DEF p
  <2>2. careful' = [careful EXCEPT !.plain = careful.plain /\ p]
    BY <1>1
  <2> QED BY <1>1, <2>1, <2>2, PlainLess
<1>3. /\ Going(stack, V, Home) /\ stack.size \in Nat /\ stack.size # 0 /\ Pair(a) /\ Pair(main)
      /\ f \in DOMAIN funcs
  <2>1. f \in DOMAIN funcs /\ IsFunc(funcs[f], Worths(Live))
    BY <1>1, RunningIs
  <2>2. Pair(a)
    BY <2>1 DEF IsFunc
  <2> QED BY <1>1, <2>1, <2>2, RunningIs DEF Pair
<1>4. low \in Nat /\ high \in Nat /\ high >= stack.size /\ (Home' => low = stack.size \/ Conts = {})
  BY <1>2, <1>3
<1> HIDE DEF V, a, k, p, main
<1>5. CASE i = Nil
  <2>1. Fares(stack, anew, low, high, {k}, V, Home)
    BY <1>3, CallFares
  <2>2. Joins({k})
    <3>1. kernels' = [j \in DOMAIN kernels \cup {k} |-> IF j = k THEN funcs[f].env ELSE kernels[j]]
      BY <1>1, <1>5 DEF LinkedTo
    <3>2. DOMAIN kernels' = DOMAIN kernels \cup {k}
          /\ \A j \in DOMAIN kernels' : kernels'[j] = (IF j = k THEN funcs[f].env ELSE kernels[j])
      BY <3>1
    <3> QED BY <3>2 DEF Joins
  <2>3. stack' = anew
    BY <1>1, <1>5
  <2> HIDE DEF anew, low, high
  <2>4. Fares(stack, stack', low, high, {k}, V, Home')
    BY <1>2, <2>1, <2>3, FaresLess
  <2>5. stack'.size = high
    BY <2>4 DEF Fares
  <2> QED BY <1>1, <1>2, <1>4, <2>2, <2>4, <2>5, Moved DEF V
<1>6. CASE i # Nil
  <2>1. Fares(stack, again, low, high, {}, V, Home)
    BY <1>3, <1>6, ResumeCallFares
  <2>2. Joins({})
    BY <1>1, <1>6 DEF Joins
  <2>3. stack' = again
    BY <1>1, <1>6
  <2> HIDE DEF again, low, high
  <2>4. Fares(stack, stack', low, high, {}, V, Home')
    BY <1>2, <2>1, <2>3, FaresLess
  <2>5. stack'.size = high
    BY <2>4 DEF Fares
  <2> QED BY <1>1, <1>2, <1>4, <2>2, <2>4, <2>5, Moved DEF V
<1> QED BY <1>5, <1>6
-----------------------------------------------------------------------------
(* Where the instruction faults, or finds no operands, the program stops.  *)
LEMMA Stops ==
    ASSUME IInv, UNCHANGED <<stack, funcs, kernels, traced, held, program, lowest, careful>>,
           status' \in {"error", "fault"},
           status' = "fault" /\ program.conts < 2 /\ careful.drop /\ careful.met => status = "fault"
    PROVE  IInv'
<1>1. Shape /\ Reached /\ Tracing /\ Lone
  BY DEF IInv
<1>2. Shape'
  <2>1. Live' = Live /\ Home' = Home
    BY DEF Live, Home
  <2>2. Worths(Live)' = Worths(Live') /\ Worths(Live) = Worths(Live')
    BY <2>1 DEF Worths, Fn
  <2>3. Going(stack, Worths(Live), Home)' = Going(stack', Worths(Live'), Home')
    BY DEF Worths, Fn, Going, Fine, Runs
  <2>4. Going(stack', Worths(Live'), Home')
    BY <1>1, <2>1, <2>2 DEF Shape
  <2>5. \A f \in DOMAIN funcs' : IsFunc(funcs'[f], Worths(Live)')
    BY <1>1, <2>2 DEF Shape
  <2> QED BY <1>1, <2>3, <2>4, <2>5 DEF Shape
<1>3. Reached'
  <2>1. Envs(stack)' = Envs(stack)
    BY DEF Envs
  <2> QED BY <1>1, <2>1 DEF Reached
<1>4. Tracing'
  <2> USE <1>1
  <2> QED BY KeepsTracing
<1>5. Lone'
  <2>1. Conts' = Conts
    BY DEF Conts
  <2>2. ASSUME program.conts < 2, NEW f \in Conts PROVE Single(f)'
    <3>1. Single(f)
      BY <1>1, <2>2 DEF Lone
    <3>2. AtHome(funcs[f].snap, stack, lowest[f])' = AtHome(funcs[f].snap, stack, lowest[f])
      BY DEF AtHome, Frames, Walk
    <3> QED BY <3>1, <3>2 DEF Single, Home
  <2>3. program.conts < 2 /\ careful'.drop /\ careful'.met => status' # "fault"
    BY <1>1 DEF Lone
  <2> QED BY <1>1, <2>1, <2>2, <2>3 DEF Lone
<1> QED BY <1>2, <1>3, <1>4, <1>5 DEF IInv

(* An instruction without operands keeps it.                               *)
LEMMA FailsStays == ASSUME IInv, Fails PROVE IInv'
  BY Stops DEF Fails

(* Nothing happens.                                                        *)
LEMMA StutterStays == ASSUME IInv, UNCHANGED vars PROVE IInv'
<1>1. UNCHANGED <<stack, funcs, kernels, traced, held, status, instr, program, lowest, careful>>
  BY DEF vars
<1>2. Live' = Live /\ Home' = Home /\ Conts' = Conts
  BY <1>1 DEF Live, Home, Conts
<1>3. Worths(Live)' = Worths(Live)
  BY <1>2 DEF Worths, Fn
<1>4. Shape'
  <2>1. Going(stack, Worths(Live), Home)' = Going(stack', Worths(Live)', Home')
    BY DEF Worths, Fn, Going, Fine, Runs
  <2> QED BY <1>1, <1>2, <1>3, <2>1 DEF Shape, IInv
<1>5. Reached'
  BY <1>1 DEF Reached, IInv, Envs
<1>6. Tracing'
  <2> USE <1>1
  <2>1. Tracing
    BY DEF IInv
  <2> QED BY <2>1, KeepsTracing
<1>7. Lone'
  <2>1. \A f \in Conts : AtHome(funcs[f].snap, stack, lowest[f])' = AtHome(funcs[f].snap, stack, lowest[f])
    BY <1>1 DEF AtHome, Frames, Walk
  <2>2. \A f \in Conts : Single(f)' = Single(f)
    BY <1>1, <1>2, <2>1 DEF Single
  <2> QED BY <1>1, <1>2, <2>2 DEF Lone, IInv
<1> QED BY <1>4, <1>5, <1>6, <1>7 DEF IInv

(* A continuation that is alone has its frames on the stack.               *)
LEMMA Alone ==
    ASSUME IInv, status = "running", NEW f \in Conts, program.conts < 2
    PROVE  /\ Preserved(f) = lowest[f] /\ lowest[f] \in Nat /\ lowest[f] <= stack.size /\ Conts = {f} /\ lowest[f] # 0
           /\ lowest[f] <= Len(funcs[f].snap)
<1>1. Single(f) /\ \A g \in Conts : g = f
  BY DEF IInv, Lone
<1>2. funcs[f].turningPoint = lowest[f] /\ lowest[f] <= Len(funcs[f].snap) /\ lowest[f] \in Nat /\ lowest[f] <= stack.size
      /\ lowest[f] # 0
  BY <1>1 DEF Single
<1>3. Len(funcs[f].snap) \in Nat
  BY DEF IInv, Shape, IsFunc, AllSnapped, Conts
<1>4. Preserved(f) = lowest[f]
  BY <1>2, <1>3 DEF Preserved
<1> QED BY <1>1, <1>2, <1>4

(* A call of a continuation keeps it: the frames below the turning point   *)
(* are wound back, the others made anew, and the turning point is the      *)
(* lowest height still.                                                    *)
LEMMA CallContinuationStays ==
    ASSUME IInv, NEW op, NEW f \in held, NEW n, CallContinuation(op, f, n) PROVE IInv'
<1> DEFINE V == Worths(Live)
           low == Preserved(f)
           g == funcs[f]
           N == Len(g.snap)
<1>1. /\ status = "running" /\ g.kind = "cont" /\ f \in DOMAIN funcs /\ f \in Conts /\ IsFunc(g, V)
      /\ Going(stack, V, Home) /\ stack.size \in Nat /\ stack.size # 0 /\ held \subseteq DOMAIN funcs
      /\ DOMAIN funcs \subseteq 1 .. program.funcs
  <2>1. status = "running" /\ g.kind = "cont"
    BY DEF CallContinuation, Executes
  <2> QED BY <2>1, RunningIs DEF Conts
<1>2. low \in Nat /\ N \in Nat /\ low <= N
  BY <1>1, PreservedIs
<1>3. program.conts < 2 => low = lowest[f] /\ lowest[f] <= stack.size /\ lowest[f] \in Nat /\ Conts = {f} /\ lowest[f] <= N
  BY <1>1, Alone
<1>0. IInv => Shape /\ Reached /\ Tracing /\ Lone
  BY DEF IInv
<1>4. CASE low > stack.size
  <2>1. Fault
    BY <1>4 DEF CallContinuation
  <2>2. ~ (program.conts < 2)
    BY <1>1, <1>2, <1>3, <1>4
  <2> QED BY <2>1, <2>2, Stops DEF Fault
<1>5. CASE ~ (low > stack.size)
  <2> DEFINE s == Finish(op, GoBack(f, n))
             p == ~ TailOp(op)
             z == PatchTraps(stack, g.snap)
             m == IF TailOp(op) THEN N ELSE N + 1
             l == IF TailOp(op) THEN 0 ELSE low
  <2>1. /\ stack' = s
        /\ kernels' = [k \in DOMAIN kernels \cup {s.frame[i].env : i \in DOMAIN s.frame} |->
                         IF k \in DOMAIN kernels THEN kernels[k] ELSE Nil]
        /\ funcs' = [funcs EXCEPT ![f].snap = z]
        /\ careful' = [careful EXCEPT !.plain = @ /\ p]
        /\ Lowest(low)
        /\ UNCHANGED <<traced, held, status, program>>
    BY <1>5 DEF CallContinuation, Becomes, Environments
  <2>2. low <= stack.size
    BY <1>1, <1>2, <1>5
  <2>3. Less /\ careful'.removed = careful.removed /\ (Home' => Home /\ p)
    <3>1. p \in BOOLEAN
      OBVIOUS
    <3> HIDE DEF p
    <3>2. careful' = [careful EXCEPT !.plain = careful.plain /\ p]
      BY <2>1
    <3> QED BY <2>1, <3>1, <3>2, PlainLess
  <2>4. Home => AtHome(g.snap, stack, low)
    <3>1. Home => program.conts < 2
      BY DEF Home
    <3>2. ASSUME Home PROVE Single(f)
      BY <3>1, <3>2, <1>1 DEF IInv, Lone
    <3> QED BY <3>1, <3>2, <1>3 DEF Single
  <2>5. (\E X : Fares(stack, s, l, m, X, V, Home)) /\ (p => Wound(g.snap, low, s))
    <3>1. LET y == Finish(op, GoBack(f, n))
          IN /\ \E X : Fares(stack, y, IF TailOp(op) THEN 0 ELSE Preserved(f),
                              IF TailOp(op) THEN Len(funcs[f].snap) ELSE Len(funcs[f].snap) + 1, X, V, Home)
             /\ ~ TailOp(op) => Wound(funcs[f].snap, Preserved(f), y)
      <4> HIDE DEF V
      <4> QED BY <1>1, <2>2, <2>4, GoBackFares
    <3> QED BY <3>1
  <2>6. l \in Nat /\ m \in Nat /\ m # 0 /\ (program.conts < 2 => lowest[f] <= m) /\ (p => l = low)
    <3>1. N # 0
      BY <1>1 DEF IsFunc
    <3> QED BY <1>2, <1>3, <3>1
  <2> HIDE DEF s, m, l, z
  <2>7. Fares(stack, stack', l, m, Envs(stack'), V, Home')
    <3>1. PICK X : Fares(stack, s, l, m, X, V, Home)
      BY <2>5
    <3>2. Fares(stack, stack', l, m, X, V, Home')
      BY <2>1, <2>3, <3>1, FaresLess
    <3> QED BY <3>2 DEF Fares
  <2>8. Joins(Envs(stack'))
    <3>1. {s.frame[i].env : i \in DOMAIN s.frame} = Envs(stack')
      BY <2>1 DEF Envs
    <3> DEFINE E == Envs(stack')
    <3>2. kernels' = [k \in DOMAIN kernels \cup E |-> IF k \in DOMAIN kernels THEN kernels[k] ELSE Nil]
      BY <2>1, <3>1
    <3> HIDE DEF E
    <3>3. DOMAIN kernels' = DOMAIN kernels \cup E
          /\ \A k \in DOMAIN kernels' : kernels'[k] = (IF k \in DOMAIN kernels THEN kernels[k] ELSE Nil)
      BY <3>2
    <3>4. Joins(E)
      BY <3>3 DEF Joins
    <3> QED BY <3>4 DEF E
  <2>9. /\ AllSnapped(z, V) /\ Len(z) = N /\ \A k \in 1 .. N : z[k].pc = g.snap[k].pc
    <3>1. AllSnapped(g.snap, V)
      BY <1>1 DEF IsFunc
    <3>2. Patched(z, g.snap, V)
      <4> HIDE DEF V, g
      <4> QED BY <1>1, <3>1, PatchIs DEF z
    <3> QED BY <3>2 DEF Patched
  <2> DEFINE h == [g EXCEPT !.snap = z]
  <2>10. /\ DOMAIN funcs' = DOMAIN funcs /\ funcs'[f] = h /\ \A j \in DOMAIN funcs \ {f} : funcs'[j] = funcs[j]
    BY <1>1, <2>1
  <2>11. /\ h.kind = g.kind /\ h.env = g.env /\ h.item = g.item /\ h.turningPoint = g.turningPoint /\ h.snap = z
         /\ IsFunc(h, V)
    <3>1. g = [kind |-> g.kind, address |-> g.address, cached |-> g.cached, env |-> g.env, snap |-> g.snap,
            turningPoint |-> g.turningPoint, item |-> g.item]
      BY <1>1 DEF IsFunc
    <3>2. h = [kind |-> g.kind, address |-> g.address, cached |-> g.cached, env |-> g.env, snap |-> z,
            turningPoint |-> g.turningPoint, item |-> g.item]
      BY <3>1
    <3>3. Pair(g.address) /\ g.cached \in Seq(V) /\ g.turningPoint \in Nat /\ (g.kind = "cont" => N # 0)
      BY <1>1 DEF IsFunc
    <3> HIDE DEF h, g, N, V
    <3>4. /\ h.kind = g.kind /\ h.env = g.env /\ h.item = g.item /\ h.turningPoint = g.turningPoint /\ h.snap = z
          /\ h.address = g.address /\ h.cached = g.cached
      BY <3>2
    <3>5. h = [kind |-> h.kind, address |-> h.address, cached |-> h.cached, env |-> h.env, snap |-> h.snap,
            turningPoint |-> h.turningPoint, item |-> h.item]
      BY <3>2, <3>4
    <3> QED BY <2>9, <3>3, <3>4, <3>5 DEF IsFunc
  <2> HIDE DEF h
  <2>12. Going(stack', V, Home') /\ Envs(stack') \subseteq Envs(stack') \cup Envs(stack) /\ stack'.size = m
    BY <2>7 DEF Fares
  <2>13. Shape'
    <3>1. \A j \in DOMAIN funcs' : IsFunc(funcs'[j], V)
      BY <1>0, <2>10, <2>11 DEF Shape
    <3>2. Worths(Live) \subseteq Worths(Live') /\ Worths(Live)' = Worths(Live')
      BY <1>0, <2>3, <2>10, LiveMore DEF Worths, Fn
    <3>3. \A j \in DOMAIN funcs' : IsFunc(funcs'[j], Worths(Live)')
      BY <3>1, <3>2, FuncLess
    <3> QED BY <1>0, <1>1, <2>1, <2>3, <2>6, <2>10, <2>12, <3>3, KeepsShape
  <2>14. \A j \in DOMAIN funcs : /\ funcs'[j].env = funcs[j].env /\ funcs'[j].item = funcs[j].item
                                 /\ funcs'[j].kind = funcs[j].kind /\ funcs'[j].turningPoint = funcs[j].turningPoint
                                 /\ Len(funcs'[j].snap) = Len(funcs[j].snap)
                                 /\ \A k \in 1 .. Len(funcs[j].snap) : funcs'[j].snap[k].pc = funcs[j].snap[k].pc
    <3> SUFFICES ASSUME NEW j \in DOMAIN funcs
                 PROVE /\ funcs'[j].env = funcs[j].env /\ funcs'[j].item = funcs[j].item
                       /\ funcs'[j].kind = funcs[j].kind /\ funcs'[j].turningPoint = funcs[j].turningPoint
                       /\ Len(funcs'[j].snap) = Len(funcs[j].snap)
                       /\ \A k \in 1 .. Len(funcs[j].snap) : funcs'[j].snap[k].pc = funcs[j].snap[k].pc
      OBVIOUS
    <3>1. CASE j = f
      BY <3>1, <2>9, <2>10, <2>11
    <3>2. CASE j # f
      BY <3>2, <2>10
    <3> QED BY <3>1, <3>2
  <2>15. Reached'
    <3> HIDE DEF g, N, low, p, V
    <3> QED BY <1>0, <1>1, <2>1, <2>3, <2>8, <2>10, <2>12, <2>14, KeepsReached
  <2>16. Tracing'
    <3> HIDE DEF g, N, low, p, V
    <3> QED BY <1>0, <2>1, <2>3, <2>10, <2>14, KeepsTracing
  <2>17. Lone'
    <3>1. /\ DOMAIN lowest' = DOMAIN lowest
          /\ \A j \in DOMAIN lowest : lowest'[j] = (IF low < lowest[j] THEN low ELSE lowest[j])
      BY <2>1 DEF Lowest
    <3>2. program.conts < 2 => \A j \in Conts : lowest'[j] = lowest[j] /\ lowest[j] <= stack'.size
      <4> SUFFICES ASSUME program.conts < 2 PROVE lowest'[f] = lowest[f] /\ lowest[f] <= stack'.size
        BY <1>3
      <4>1. f \in DOMAIN lowest
        BY <1>0, <1>1 DEF Lone
      <4> QED BY <4>1, <1>2, <1>3, <2>6, <2>12, <3>1
    <3>3. Home' => \A j \in Conts : lowest[j] <= l
      <4>1. Home' => program.conts < 2
        BY <2>3 DEF Home
      <4> QED BY <4>1, <1>2, <1>3, <2>3, <2>6
    <3>4. Fares(stack, stack', l, stack'.size, Envs(stack'), V, Home')
      BY <2>7, <2>12
    <3>5. status' = status /\ status = "running"
      BY <1>1, <2>1
    <3> HIDE DEF g, N, low, p, V
    <3> QED BY <1>0, <2>3, <2>6, <2>10, <2>14, <3>1, <3>2, <3>3, <3>4, <3>5, KeepsLone
  <2> QED BY <2>13, <2>15, <2>16, <2>17 DEF IInv
<1> QED BY <1>4, <1>5
-----------------------------------------------------------------------------
(* A step that may let go of an environment that is continued.             *)
LEMMA DropLess ==
    ASSUME IInv, program' = program, NEW p \in BOOLEAN, careful' = [careful EXCEPT !.drop = careful.drop /\ p]
    PROVE  Less /\ careful'.removed = careful.removed /\ Home' = Home /\ (careful'.drop => p)
<1>1. careful \in Cares
  BY DEF IInv, Shape
<1>2. careful' \in Cares /\ careful'.drop = (careful.drop /\ p) /\ careful'.plain = careful.plain /\ careful'.met = careful.met
      /\ careful'.removed = careful.removed
  BY <1>1 DEF Cares
<1> QED BY <1>2 DEF Less, Home

(* A function lets go of an environment that none continues.               *)
LEMMA LetsGo ==
    ASSUME IInv, status = "running", NEW f \in held, Less, NEW p,
           careful'.drop => p, p => ~ Continued(funcs[f].env), kernels' = kernels, Envs(stack') \subseteq Envs(stack),
           DOMAIN funcs' = DOMAIN funcs, held \ {f} \subseteq held', held' \subseteq held,
           \A g \in DOMAIN funcs \ {f} : funcs'[g].env = funcs[g].env, funcs'[f].env \in {funcs[f].env, Nil}
    PROVE  Reached'
<1> SUFFICES ASSUME careful'.drop, careful'.met
             PROVE  /\ Envs(stack') \subseteq DOMAIN kernels'
                    /\ \A g \in DOMAIN funcs' : funcs'[g].env \in DOMAIN kernels' \cup {Nil}
                    /\ \A k \in DOMAIN kernels' : kernels'[k] = Nil \/ \E g \in held' : funcs'[g].env = kernels'[k]
  <2>1. Envs(stack)' = Envs(stack')
    BY DEF Envs
  <2> QED BY <2>1 DEF Reached
<1>1. careful.drop /\ careful.met /\ ~ Continued(funcs[f].env)
  BY DEF Less
<1>2. /\ Envs(stack) \subseteq DOMAIN kernels
      /\ \A g \in DOMAIN funcs : funcs[g].env \in DOMAIN kernels \cup {Nil}
      /\ \A k \in DOMAIN kernels : kernels[k] = Nil \/ \E g \in held : funcs[g].env = kernels[k]
  BY <1>1 DEF Reached, IInv
<1>3. held \subseteq DOMAIN funcs
  BY DEF IInv, Shape
<1>4. ASSUME NEW k \in DOMAIN kernels, kernels[k] # Nil PROVE \E g \in held' : funcs'[g].env = kernels[k]
  <2>1. PICK g \in held : funcs[g].env = kernels[k]
    BY <1>2, <1>4
  <2>2. g # f
    BY <1>1, <1>4, <2>1 DEF Continued
  <2> QED BY <1>3, <2>1, <2>2
<1> QED BY <1>2, <1>4

(* A variable that lets go of its function keeps it.                       *)
LEMMA DiscardStays == ASSUME IInv, NEW f \in held, Discard(f) PROVE IInv'
<1> DEFINE p == ~ Continued(funcs[f].env)
<1>1. /\ status = "running" /\ held' = held \ {f} /\ careful' = [careful EXCEPT !.drop = @ /\ p]
      /\ UNCHANGED <<stack, funcs, kernels, traced, status, program, lowest>>
  BY DEF Discard, Executes
<1>2. Less /\ careful'.removed = careful.removed /\ Home' = Home /\ (careful'.drop => p)
  <2>1. p \in BOOLEAN
    BY DEF Continued
  <2> HIDE DEF p
  <2>2. careful' = [careful EXCEPT !.drop = careful.drop /\ p]
    BY <1>1
  <2> QED BY <1>1, <2>1, <2>2, DropLess
<1>3. Shape /\ Tracing /\ Lone
  BY DEF IInv
<1>4. Shape'
  <2>1. Worths(Live) \subseteq Worths(Live') /\ Worths(Live)' = Worths(Live')
    BY <1>1, <1>2, <1>3, LiveMore DEF Worths, Fn
  <2>2. \A j \in DOMAIN funcs' : IsFunc(funcs'[j], Worths(Live)')
    BY <1>1, <1>3, <2>1, FuncLess DEF Shape
  <2>3. Going(stack', Worths(Live), Home') /\ stack'.size # 0 /\ status' = "running"
        /\ DOMAIN funcs' \subseteq 1 .. program.funcs /\ held' \subseteq DOMAIN funcs' /\ DOMAIN funcs \subseteq DOMAIN funcs'
    <3>1. Going(stack, Worths(Live), Home')
      BY <1>2, <1>3 DEF Shape
    <3> QED BY <1>1, <1>3, <3>1 DEF Shape
  <2> QED BY <1>2, <1>3, <2>2, <2>3, KeepsShape
<1>5. Reached'
  <2>1. Envs(stack') \subseteq Envs(stack)
    BY <1>1
  <2> QED BY <1>1, <1>2, <2>1, LetsGo
<1>6. Tracing'
  BY <1>1, <1>2, <1>3, KeepsTracing DEF Less
<1>7. Lone'
  <2>1. /\ Going(stack, Worths(Live), Home') /\ stack.size \in Nat
    BY <1>2, <1>3, GoingIs DEF Shape
  <2>2. Fares(stack, stack', stack.size, stack'.size, {}, Worths(Live), Home')
    BY <1>1, <2>1, GoingFares
  <2>3. program.conts < 2 => \A g \in Conts : lowest[g] <= stack.size
    BY <1>3 DEF Lone, Single
  <2>4. Home' => \A g \in Conts : lowest[g] <= stack.size
    BY <2>3, <1>2 DEF Home
  <2> QED BY <1>1, <1>2, <1>3, <2>1, <2>2, <2>3, <2>4, KeepsLone
<1> QED BY <1>4, <1>5, <1>6, <1>7 DEF IInv

(* An answered promise keeps it.                                           *)
LEMMA PROMCStays == ASSUME IInv, NEW f \in held, NEW v \in Values, PROMC(f, v) PROVE IInv'
<1> DEFINE V == Worths(Live)
           p == Answered(f) \/ ~ Continued(funcs[f].env)
           s == PushOn(PushOn(Next1(stack), stack.top, Fn(f)), stack.top, v)
           g == funcs[f]
           h == WithAnswer(f, v)
<1>1. /\ status = "running" /\ stack' = s /\ careful' = [careful EXCEPT !.drop = @ /\ p] /\ g.kind = "promise"
      /\ funcs' = [funcs EXCEPT ![f] = h]
      /\ UNCHANGED <<kernels, traced, held, status, program, lowest>>
  BY DEF PROMC, Executes, Becomes
<1>2. Less /\ careful'.removed = careful.removed /\ Home' = Home /\ (careful'.drop => p)
  <2>1. p \in BOOLEAN
    BY DEF Continued, Answered
  <2> HIDE DEF p
  <2>2. careful' = [careful EXCEPT !.drop = careful.drop /\ p]
    BY <1>1
  <2> QED BY <1>1, <2>1, <2>2, DropLess
<1>3. Shape /\ Tracing /\ Lone /\ Reached
  BY DEF IInv
<1>4. /\ f \in DOMAIN funcs /\ v \in V /\ Fn(f) \in V /\ IsFunc(g, V) /\ Going(stack, V, Home) /\ stack.size \in Nat
      /\ stack.size # 0 /\ held \subseteq DOMAIN funcs /\ DOMAIN funcs \subseteq 1 .. program.funcs
  BY <1>1, RunningIs
<1>5. Fares(stack, s, stack.size, stack.size, {}, V, Home)
  <2> HIDE DEF V
  <2> QED BY <1>4, PushesFares
<1> HIDE DEF s
<1>6. Fares(stack, stack', stack.size, stack.size, {}, V, Home') /\ stack'.size = stack.size
      /\ Going(stack', V, Home') /\ Envs(stack') \subseteq Envs(stack)
  <2>1. Fares(stack, stack', stack.size, stack.size, {}, V, Home')
    BY <1>1, <1>2, <1>5
  <2> QED BY <2>1 DEF Fares
<1>7. IsFunc(h, V) /\ h.kind = g.kind /\ h.snap = g.snap /\ h.item = g.item /\ h.turningPoint = g.turningPoint
      /\ h.env \in {g.env, Nil} /\ (Answered(f) => h = g)
  <2>1. CASE g.cached # <<>>
    BY <2>1, <1>4 DEF WithAnswer
  <2>2. CASE g.cached = <<>>
    <3>1. g = [kind |-> g.kind, address |-> g.address, cached |-> g.cached, env |-> g.env, snap |-> g.snap,
            turningPoint |-> g.turningPoint, item |-> g.item]
      BY <1>4 DEF IsFunc
    <3>2. h = [kind |-> g.kind, address |-> g.address, cached |-> <<v>>, env |-> Nil, snap |-> g.snap,
            turningPoint |-> g.turningPoint, item |-> g.item]
      BY <3>1, <2>2 DEF WithAnswer
    <3>3. Pair(g.address) /\ <<v>> \in Seq(V) /\ AllSnapped(g.snap, V) /\ g.turningPoint \in Nat
          /\ (g.kind = "cont" => Len(g.snap) # 0)
      BY <1>4 DEF IsFunc
    <3>4. ~ Answered(f)
      BY <2>2 DEF Answered
    <3> HIDE DEF g, h, V
    <3>5. h.kind = g.kind /\ h.address = g.address /\ h.cached = <<v>> /\ h.env = Nil /\ h.snap = g.snap
          /\ h.turningPoint = g.turningPoint /\ h.item = g.item
      BY <3>2
    <3>6. h = [kind |-> h.kind, address |-> h.address, cached |-> h.cached, env |-> h.env, snap |-> h.snap,
            turningPoint |-> h.turningPoint, item |-> h.item]
      BY <3>2, <3>5
    <3> QED BY <3>3, <3>4, <3>5, <3>6 DEF IsFunc
  <2> QED BY <2>1, <2>2
<1>8. DOMAIN funcs' = DOMAIN funcs /\ funcs'[f] = h /\ \A j \in DOMAIN funcs \ {f} : funcs'[j] = funcs[j]
  BY <1>1, <1>4
<1> HIDE DEF h
<1>9. Shape'
  <2>1. Worths(Live) \subseteq Worths(Live') /\ Worths(Live)' = Worths(Live')
    BY <1>2, <1>3, <1>8, LiveMore DEF Worths, Fn
  <2>2. \A j \in DOMAIN funcs' : IsFunc(funcs'[j], V)
    BY <1>3, <1>7, <1>8 DEF Shape
  <2>3. \A j \in DOMAIN funcs' : IsFunc(funcs'[j], Worths(Live)')
    BY <2>1, <2>2, FuncLess
  <2>4. status' = "running" /\ stack'.size # 0 /\ held' \subseteq DOMAIN funcs'
    BY <1>1, <1>4, <1>6, <1>8
  <2> QED BY <1>2, <1>3, <1>4, <1>6, <1>8, <2>3, <2>4, KeepsShape
<1>10. Reached'
  <2>1. CASE Answered(f)
    <3>1. Joins({})
      BY <1>1 DEF Joins
    <3>2. \A j \in DOMAIN funcs : funcs'[j].env = funcs[j].env
      BY <2>1, <1>7, <1>8
    <3>3. Envs(stack') \subseteq {} \cup Envs(stack) /\ held' = held
      BY <1>1, <1>6
    <3> QED BY <1>2, <1>3, <1>4, <1>8, <3>1, <3>2, <3>3, KeepsReached
  <2>2. CASE ~ Answered(f)
    <3>1. p => ~ Continued(funcs[f].env)
      BY <2>2
    <3>2. funcs'[f].env \in {funcs[f].env, Nil} /\ \A j \in DOMAIN funcs \ {f} : funcs'[j].env = funcs[j].env
      BY <1>7, <1>8
    <3> HIDE DEF p
    <3> QED BY <1>1, <1>2, <1>6, <1>8, <3>1, <3>2, LetsGo
  <2> QED BY <2>1, <2>2
<1>11. \A j \in DOMAIN funcs : /\ funcs'[j].item = funcs[j].item /\ funcs'[j].kind = funcs[j].kind
                               /\ funcs'[j].snap = funcs[j].snap /\ funcs'[j].turningPoint = funcs[j].turningPoint
  BY <1>7, <1>8
<1>12. Tracing'
  BY <1>1, <1>2, <1>3, <1>8, <1>11, KeepsTracing DEF Less
<1>13. Lone'
  <2>1. program.conts < 2 => \A j \in Conts : lowest[j] <= stack.size
    BY <1>3 DEF Lone, Single
  <2>2. Home' => \A j \in Conts : lowest[j] <= stack.size
    BY <2>1, <1>2 DEF Home
  <2>3. Fares(stack, stack', stack.size, stack'.size, {}, V, Home')
    BY <1>6
  <2> HIDE DEF V, g
  <2> QED BY <1>1, <1>2, <1>3, <1>4, <1>6, <1>8, <1>11, <2>1, <2>2, <2>3, KeepsLone
<1> QED BY <1>9, <1>10, <1>12, <1>13 DEF IInv
-----------------------------------------------------------------------------
(* There are as many items as the list is long.                            *)
LEMMA StrungSize ==
    ASSUME NEW t, NEW q, Strung(t, q)
    PROVE  Cardinality(DOMAIN t.item) = Len(q) /\ Len(q) \in Nat
<1> DEFINE n == Len(q)
           met == {q[i] : i \in 1 .. n}
<1>1. n \in Nat /\ (\A i, j \in 1 .. n : q[i] = q[j] => i = j) /\ DOMAIN t.item = met
  BY Zenon DEF Strung
<1>2. Cardinality(met) = n
  <2>1. \A i, j \in 1 .. n : q[i] = q[j] => i = j
    BY <1>1
  <2>2. n \in Nat
    BY <1>1
  <2> HIDE DEF n
  <2>3. IsFiniteSet(met) /\ Cardinality(met) = n
    BY ONLY <2>1, <2>2, Different
  <2> QED BY <2>3
<1> QED BY <1>1, <1>2, ZenonT(40)

(* A list that is strung is walked to its end and meets all items. The     *)
(* counted walk of ContinuationList is unrolled here.                      *)
LEMMA ChainIs ==
    ASSUME NEW t, IsTrace(t), NEW q, Strung(t, q)
    PROVE  Sound(t) /\ Traced(t) = DOMAIN t.item
<1> DEFINE D == DOMAIN t.item
           N == Cardinality(DOMAIN t.item)
           C == Len(q)
           b == t.begin
           Onwards(f) == IF Last(f) \in D THEN Append(f, t.item[Last(f)].next) ELSE f
           Nth(f, n) == IF n = 0 THEN <<b>> ELSE Onwards(f[n - 1])
           F == CHOOSE f : f = [n \in 0 .. Cardinality(DOMAIN t.item) |->
                                  IF n = 0 THEN <<t.begin>>
                                  ELSE LET p == Last(f[n - 1])
                                       IN IF p \in DOMAIN t.item THEN Append(f[n - 1], t.item[p].next)
                                          ELSE f[n - 1]]
           Part(m) == [j \in 1 .. m + 1 |-> IF j <= C THEN q[j] ELSE NoItem]
           g == [n \in 0 .. N |-> Part(IF n < C THEN n ELSE C)]
<1>1. /\ D = {q[k] : k \in 1 .. C} /\ C \in Nat /\ N \in Nat /\ C <= N /\ NoItem \notin D
      /\ b = (IF C = 0 THEN NoItem ELSE q[1])
      /\ \A k \in 1 .. C : q[k] \in D /\ t.item[q[k]].next = (IF k = C THEN NoItem ELSE q[k + 1])
  <2>1. C \in Nat /\ N \in Nat /\ N = C
    BY StrungSize
  <2>2. NoItem \notin D
    BY DEF IsTrace, NoItem
  <2>3. b = (IF C = 0 THEN NoItem ELSE q[1]) /\ D = {q[k] : k \in 1 .. C}
        /\ \A k \in 1 .. C : q[k] \in D /\ t.item[q[k]].next = (IF k = C THEN NoItem ELSE q[k + 1])
    BY Zenon DEF Strung
  <2>4. C <= N
    BY <2>1
  <2> HIDE DEF D, N, C, b
  <2> QED BY <2>1, <2>2, <2>3, <2>4
<1> HIDE DEF D, N, C, b
<1>2. ASSUME NEW m \in 0 .. C
      PROVE  /\ Part(m) \in Seq(D \cup {NoItem}) /\ Len(Part(m)) = m + 1
             /\ Last(Part(m)) = (IF m < C THEN q[m + 1] ELSE NoItem)
  <2>1. Part(m) \in [1 .. m + 1 -> D \cup {NoItem}]
    BY <1>1
  <2>2. m + 1 \in Nat /\ DOMAIN Part(m) = 1 .. m + 1 /\ m + 1 \in 1 .. m + 1
    BY <1>1
  <2>3. Part(m)[m + 1] = (IF m < C THEN q[m + 1] ELSE NoItem)
    BY <1>1, <2>2
  <2> HIDE DEF Part
  <2>4. Part(m) \in Seq(D \cup {NoItem})
    BY <2>1, <2>2 DEF Seq
  <2>5. Len(Part(m)) = m + 1
    BY <2>2, <2>4, LenProperties
  <2> QED BY <2>3, <2>4, <2>5 DEF Last
<1>3. ASSUME NEW m \in 0 .. C PROVE Onwards(Part(m)) = Part(IF m < C THEN m + 1 ELSE C)
  <2>1. CASE m < C
    <3>1. m + 1 \in 0 .. C /\ m + 1 \in 1 .. C
      BY <1>1, <2>1
    <3> DEFINE e == IF m + 1 = C THEN NoItem ELSE q[m + 2]
    <3>2. Onwards(Part(m)) = Append(Part(m), e)
      <4>1. Last(Part(m)) = q[m + 1] /\ q[m + 1] \in D /\ t.item[q[m + 1]].next = e
        BY <1>1, <1>2, <2>1, <3>1
      <4> HIDE DEF Part, e
      <4> QED BY <4>1 DEF D
    <3>3. e = (IF m + 2 <= C THEN q[m + 2] ELSE NoItem)
      BY <1>1, <2>1
    <3> HIDE DEF e
    <3>4. Len(Append(Part(m), e)) = m + 2 /\ Append(Part(m), e) \in Seq(D \cup {NoItem})
      <4>1. e \in D \cup {NoItem}
        BY <3>3, <1>1, <2>1
      <4> HIDE DEF Part
      <4> QED BY <1>2, <4>1
    <3>5. Len(Part(m + 1)) = m + 2 /\ Part(m + 1) \in Seq(D \cup {NoItem})
      <4>1. (m + 1) + 1 = m + 2 /\ m + 1 \in 0 .. C
        BY <1>1, <3>1
      <4> HIDE DEF Part
      <4> QED BY <1>2, <4>1
    <3>6. ASSUME NEW j \in 1 .. m + 2 PROVE Append(Part(m), e)[j] = Part(m + 1)[j]
      <4>1. CASE j = m + 2
        <5>1. Part(m + 1)[j] = e
          BY <4>1, <3>3, <3>1
        <5>2. Append(Part(m), e)[j] = e
          <6> HIDE DEF Part
          <6> QED BY <1>2, <4>1
        <5> QED BY <5>1, <5>2
      <4>2. CASE j # m + 2
        <5>1. j \in 1 .. m + 1
          BY <4>2
        <5>2. Part(m + 1)[j] = Part(m)[j]
          BY <5>1
        <5>3. Append(Part(m), e)[j] = Part(m)[j]
          <6> HIDE DEF Part
          <6> QED BY <1>2, <5>1
        <5> QED BY <5>2, <5>3
      <4> QED BY <4>1, <4>2
    <3>7. Append(Part(m), e) = Part(m + 1)
      <4> HIDE DEF Part
      <4> QED BY <3>4, <3>5, <3>6, SeqEqual
    <3> HIDE DEF Part, Onwards
    <3> QED BY <2>1, <3>2, <3>7
  <2>2. CASE ~ (m < C)
    <3>1. m = C /\ Last(Part(m)) = NoItem
      BY <1>1, <1>2, <2>2
    <3> HIDE DEF Part
    <3> QED BY <1>1, <2>2, <3>1 DEF D
  <2> QED BY <2>1, <2>2
<1>4. g[0] = <<b>>
  <2>1. Part(0) = <<b>>
    <3>1. Part(0) = [j \in 1 .. 1 |-> b]
      BY <1>1
    <3> HIDE DEF Part
    <3> QED BY <3>1
  <2>2. g[0] = Part(0)
    <3> HIDE DEF Part
    <3> QED BY <1>1
  <2> HIDE DEF g, Part
  <2> QED BY <2>1, <2>2
<1>5. ASSUME NEW n \in 0 .. N PROVE g[n] = Nth(g, n)
  <2>1. CASE n = 0
    <3> HIDE DEF g, Onwards
    <3> QED BY <1>4, <2>1
  <2>2. CASE n # 0
    <3> DEFINE m == IF n - 1 < C THEN n - 1 ELSE C
    <3>1. n - 1 \in 0 .. N /\ m \in 0 .. C
      BY <1>1, <2>2
    <3>2. (IF n < C THEN n ELSE C) = (IF m < C THEN m + 1 ELSE C)
      BY <1>1, <2>2, <3>1
    <3>3. g[n] = Part(IF n < C THEN n ELSE C) /\ g[n - 1] = Part(m)
      <4> HIDE DEF Part
      <4> QED BY <3>1
    <3> HIDE DEF g, Part, m, Onwards
    <3>4. Onwards(Part(m)) = Part(IF m < C THEN m + 1 ELSE C)
      BY <1>3, <3>1
    <3> QED BY <2>2, <3>2, <3>3, <3>4
  <2> QED BY <2>1, <2>2
<1>6. g = [n \in 0 .. N |-> Nth(g, n)]
  <2>1. g = [n \in 0 .. N |-> g[n]]
    <3> HIDE DEF Part
    <3> QED OBVIOUS
  <2> HIDE DEF g, Nth
  <2> QED BY <1>5, <2>1
<1>7. F = [n \in 0 .. N |-> Nth(F, n)]
  <2> HIDE DEF g
  <2>1. \E f : f = [n \in 0 .. N |-> Nth(f, n)]
    BY <1>6
  <2> QED BY <2>1, Zenon DEF N, D, b
<1>8. Chain(t) = F[N]
  BY DEF Chain, N
<1>9. DOMAIN F = 0 .. N /\ \A n \in 0 .. N : F[n] = Nth(F, n)
  <2> HIDE DEF F, Nth
  <2> QED BY <1>7
<1> HIDE DEF F
<1>10. ASSUME NEW x \in 0 .. N, F[x] # g[x] PROVE FALSE
  <2> DEFINE bad == {k \in 0 .. N : F[k] # g[k]}
  <2> HIDE DEF g
  <2>0. x \in bad /\ bad \in SUBSET Nat
    BY <1>1, <1>10
  <2>1. PICK m \in bad : \A k \in bad : m <= k
    BY <2>0, Least
  <2>2. m \in 0 .. N /\ F[m] = Nth(F, m) /\ g[m] = Nth(g, m) /\ F[m] # g[m]
    BY <1>5, <1>9, <2>1
  <2> HIDE DEF Onwards
  <2>3. m # 0
    BY <2>2
  <2>4. m - 1 \in 0 .. N /\ ~ (m <= m - 1)
    BY <1>1, <2>2, <2>3
  <2>5. F[m - 1] = g[m - 1]
    BY <2>1, <2>4
  <2> QED BY <2>2, <2>3, <2>5
<1>11. F[N] = Part(C)
  <2>1. N \in 0 .. N /\ (IF N < C THEN N ELSE C) = C
    BY <1>1
  <2>2. g[N] = Part(C)
    <3> HIDE DEF Part
    <3> QED BY <2>1
  <2> HIDE DEF g, Part
  <2> QED BY <1>10, <2>1, <2>2
<1>12. ToSet(Chain(t)) = D \cup {NoItem}
  <2>1. C \in 0 .. C
    BY <1>1
  <2>2. Part(C) \in Seq(D \cup {NoItem}) /\ Len(Part(C)) = C + 1
    BY <1>2, <2>1
  <2>3. /\ DOMAIN Part(C) = 1 .. C + 1 /\ \A j \in 1 .. C + 1 : Part(C)[j] = (IF j <= C THEN q[j] ELSE NoItem)
    OBVIOUS
  <2> HIDE DEF Part
  <2>4. ToSet(Part(C)) = {Part(C)[j] : j \in 1 .. C + 1}
    BY <2>3 DEF ToSet
  <2>5. \A j \in 1 .. C + 1 : Part(C)[j] \in D \cup {NoItem}
    BY <1>1, <2>3
  <2>6. NoItem = Part(C)[C + 1] /\ C + 1 \in 1 .. C + 1
    BY <1>1, <2>3
  <2>7. ASSUME NEW i \in D PROVE \E j \in 1 .. C + 1 : i = Part(C)[j]
    <3>1. PICK k \in 1 .. C : i = q[k]
      BY <1>1
    <3>2. k \in 1 .. C + 1 /\ k <= C
      BY <1>1
    <3> QED BY <2>3, <3>1, <3>2
  <2>8. D \cup {NoItem} \subseteq {Part(C)[j] : j \in 1 .. C + 1}
    BY <2>6, <2>7
  <2> QED BY <1>8, <1>11, <2>4, <2>5, <2>8
<1> HIDE DEF Part
<1> QED BY <1>12 DEF Sound, Traced, D
-----------------------------------------------------------------------------
(* The next of i and the prev of k are set, as well as the ends.           *)
Relinked(t, u, i, a, k, b, begin, end) ==
    /\ IsTrace(u) /\ DOMAIN u.item = DOMAIN t.item /\ u.begin = begin /\ u.end = end
    /\ \A j \in DOMAIN t.item : /\ u.item[j].func = t.item[j].func
                                /\ u.item[j].next = (IF j = i THEN a ELSE t.item[j].next)
                                /\ u.item[j].prev = (IF j = k THEN b ELSE t.item[j].prev)

(* An assignment to a next.                                                *)
LEMMA NextSet ==
    ASSUME NEW t, IsTrace(t), NEW i, NEW a, NEW c
    PROVE  Relinked(t, [t EXCEPT !.item[i].next = a], i, a, NoItem, c, t.begin, t.end)
<1> DEFINE u == [t EXCEPT !.item[i].next = a]
           D == DOMAIN t.item
<1>1. u = [item |-> [j \in D |-> IF j = i THEN [t.item[i] EXCEPT !.next = a] ELSE t.item[j]], begin |-> t.begin, end |-> t.end]
  BY DEF IsTrace
<1>2. NoItem \notin D
  BY DEF IsTrace, NoItem
<1> HIDE DEF u
<1>3. ASSUME NEW j \in D
      PROVE  u.item[j] = [func |-> t.item[j].func, prev |-> t.item[j].prev, next |-> IF j = i THEN a ELSE t.item[j].next]
  <2> DEFINE x == t.item[j]
  <2>1. x = [func |-> x.func, prev |-> x.prev, next |-> x.next]
    BY DEF IsTrace
  <2>2. u.item[j] = IF j = i THEN [x EXCEPT !.next = a] ELSE x
    BY <1>1
  <2> HIDE DEF x
  <2>3. [x EXCEPT !.next = a] = [func |-> x.func, prev |-> x.prev, next |-> a]
    BY <2>1
  <2> QED BY <2>1, <2>2, <2>3 DEF x
<1>4. /\ u = [item |-> u.item, begin |-> u.begin, end |-> u.end] /\ DOMAIN u.item = D /\ u.begin = t.begin /\ u.end = t.end
      /\ u.item = [j \in D |-> u.item[j]]
  BY <1>1
<1>5. ASSUME NEW j \in D
      PROVE  /\ u.item[j].func = t.item[j].func /\ u.item[j].prev = t.item[j].prev
             /\ u.item[j].next = (IF j = i THEN a ELSE t.item[j].next)
             /\ u.item[j] = [func |-> u.item[j].func, prev |-> u.item[j].prev, next |-> u.item[j].next]
  <2> DEFINE y == u.item[j]
             x == t.item[j]
             z == IF j = i THEN a ELSE x.next
  <2>1. y = [func |-> x.func, prev |-> x.prev, next |-> z]
    BY <1>3
  <2> HIDE DEF x, y, z
  <2>2. y.func = x.func /\ y.prev = x.prev /\ y.next = z /\ y = [func |-> y.func, prev |-> y.prev, next |-> y.next]
    BY <2>1
  <2> QED BY <2>2 DEF x, y, z
<1>6. IsTrace(u)
  BY <1>4, <1>5 DEF IsTrace
<1> HIDE DEF D
<1>7. Relinked(t, u, i, a, NoItem, c, t.begin, t.end)
  BY <1>2, <1>4, <1>5, <1>6 DEF Relinked, D
<1> QED BY <1>7 DEF u

(* An assignment to a prev.                                                *)
LEMMA PrevSet ==
    ASSUME NEW t, IsTrace(t), NEW i, NEW a, NEW c
    PROVE  Relinked(t, [t EXCEPT !.item[i].prev = a], NoItem, c, i, a, t.begin, t.end)
<1> DEFINE u == [t EXCEPT !.item[i].prev = a]
           D == DOMAIN t.item
<1>1. u = [item |-> [j \in D |-> IF j = i THEN [t.item[i] EXCEPT !.prev = a] ELSE t.item[j]], begin |-> t.begin, end |-> t.end]
  BY DEF IsTrace
<1>2. NoItem \notin D
  BY DEF IsTrace, NoItem
<1> HIDE DEF u
<1>3. ASSUME NEW j \in D
      PROVE  u.item[j] = [func |-> t.item[j].func, prev |-> IF j = i THEN a ELSE t.item[j].prev, next |-> t.item[j].next]
  <2> DEFINE x == t.item[j]
  <2>1. x = [func |-> x.func, prev |-> x.prev, next |-> x.next]
    BY DEF IsTrace
  <2>2. u.item[j] = IF j = i THEN [x EXCEPT !.prev = a] ELSE x
    BY <1>1
  <2> HIDE DEF x
  <2>3. [x EXCEPT !.prev = a] = [func |-> x.func, prev |-> a, next |-> x.next]
    BY <2>1
  <2> QED BY <2>1, <2>2, <2>3 DEF x
<1>4. /\ u = [item |-> u.item, begin |-> u.begin, end |-> u.end] /\ DOMAIN u.item = D /\ u.begin = t.begin /\ u.end = t.end
      /\ u.item = [j \in D |-> u.item[j]]
  BY <1>1
<1>5. ASSUME NEW j \in D
      PROVE  /\ u.item[j].func = t.item[j].func /\ u.item[j].next = t.item[j].next
             /\ u.item[j].prev = (IF j = i THEN a ELSE t.item[j].prev)
             /\ u.item[j] = [func |-> u.item[j].func, prev |-> u.item[j].prev, next |-> u.item[j].next]
  <2> DEFINE y == u.item[j]
             x == t.item[j]
             z == IF j = i THEN a ELSE x.prev
  <2>1. y = [func |-> x.func, prev |-> z, next |-> x.next]
    BY <1>3
  <2> HIDE DEF x, y, z
  <2>2. y.func = x.func /\ y.next = x.next /\ y.prev = z /\ y = [func |-> y.func, prev |-> y.prev, next |-> y.next]
    BY <2>1
  <2> QED BY <2>2 DEF x, y, z
<1>6. IsTrace(u)
  BY <1>4, <1>5 DEF IsTrace
<1> HIDE DEF D
<1>7. Relinked(t, u, NoItem, c, i, a, t.begin, t.end)
  BY <1>2, <1>4, <1>5, <1>6 DEF Relinked, D
<1> QED BY <1>7 DEF u

(* Assignments to the ends.                                                *)
LEMMA EndsAre ==
    ASSUME NEW t, IsTrace(t), NEW b, NEW d, NEW u, u = [item |-> t.item, begin |-> b, end |-> d], NEW c, NEW o
    PROVE  Relinked(t, u, NoItem, c, NoItem, o, b, d)
<1>1. NoItem \notin DOMAIN t.item
  BY DEF IsTrace, NoItem
<1>2. u.item = t.item /\ u.begin = b /\ u.end = d /\ u = [item |-> u.item, begin |-> u.begin, end |-> u.end]
  OBVIOUS
<1>3. IsTrace(u)
  BY <1>2 DEF IsTrace
<1> QED BY <1>1, <1>2, <1>3 DEF Relinked

(* To the beginning.                                                       *)
LEMMA BeginSet ==
    ASSUME NEW t, IsTrace(t), NEW e, NEW c, NEW o, NEW u, u = [t EXCEPT !.begin = e]
    PROVE  Relinked(t, u, NoItem, c, NoItem, o, e, t.end)
<1>1. u = [item |-> t.item, begin |-> e, end |-> t.end]
  BY DEF IsTrace
<1> QED BY <1>1, EndsAre

(* To the end.                                                             *)
LEMMA EndSet ==
    ASSUME NEW t, IsTrace(t), NEW e, NEW c, NEW o, NEW u, u = [t EXCEPT !.end = e]
    PROVE  Relinked(t, u, NoItem, c, NoItem, o, t.begin, e)
<1>1. u = [item |-> t.item, begin |-> t.begin, end |-> e]
  BY DEF IsTrace
<1> QED BY <1>1, EndsAre

(* What such a change leaves.                                              *)
LEMMA RelinkedTrace ==
    ASSUME NEW t, NEW u, NEW i, NEW a, NEW k, NEW b, NEW x, NEW y, Relinked(t, u, i, a, k, b, x, y)
    PROVE  IsTrace(u) /\ u.begin = x /\ u.end = y /\ DOMAIN u.item = DOMAIN t.item
  BY DEF Relinked

(* There is an item that is not allocated.                                 *)
LEMMA UnusedItemIs ==
    ASSUME NEW t, IsTrace(t)
    PROVE  UnusedItem(t) \notin DOMAIN t.item /\ UnusedItem(t) \in Nat \ {0}
<1> DEFINE D == DOMAIN t.item
<1>1. IsFiniteSet(D) /\ Cardinality(D) \in Nat
  BY FS_CardinalityType DEF IsTrace
<1>2. \E i \in 1 .. Cardinality(D) + 1 : i \notin D /\ 1 .. i - 1 \subseteq D
  <2> HIDE DEF D
  <2> QED BY <1>1, FirstFree
<1>3. UnusedItem(t) \in 1 .. Cardinality(D) + 1 /\ UnusedItem(t) \notin D
  BY <1>2 DEF UnusedItem
<1> QED BY <1>1, <1>3

(* A traced continuation goes to the end of the list.                      *)
Attached(t, f, i, u) ==
    /\ IsTrace(u) /\ DOMAIN u.item = DOMAIN t.item \cup {i} /\ u.item[i].func = f
    /\ \A j \in DOMAIN t.item : u.item[j].func = t.item[j].func
    /\ \A q : Strung(t, q) => /\ Strung(u, Extended(q, i))
                              /\ Backed(t, q) => Backed(u, Extended(q, i))

(* AppendItem does just that (continuation_list_append).                   *)
LEMMA AppendIs ==
    ASSUME NEW t, IsTrace(t), NEW f
    PROVE  Attached(t, f, UnusedItem(t), AppendItem(t, f))
<1> DEFINE D == DOMAIN t.item
           i == UnusedItem(t)
           rec == [func |-> f, prev |-> NoItem, next |-> NoItem]
           m == [t EXCEPT !.item = [j \in DOMAIN @ \cup {i} |-> IF j = i THEN rec ELSE @[j]]]
           u == AppendItem(t, f)
<1>1. i \notin D /\ i \in Nat \ {0} /\ NoItem \notin D /\ i # NoItem
  BY UnusedItemIs DEF IsTrace, NoItem
<1>2. u = (IF t.begin = NoItem THEN [m EXCEPT !.begin = i, !.end = i]
           ELSE [m EXCEPT !.item[i].prev = t.end, !.item[t.end].next = i, !.end = i])
  BY DEF AppendItem
<1> HIDE DEF i, u
<1>3. m = [item |-> [j \in D \cup {i} |-> IF j = i THEN rec ELSE t.item[j]], begin |-> t.begin, end |-> t.end]
  BY DEF IsTrace
<1> HIDE DEF m
<1>4. /\ DOMAIN m.item = D \cup {i} /\ m.item[i] = rec /\ \A j \in D : m.item[j] = t.item[j]
      /\ m.begin = t.begin /\ m.end = t.end /\ m = [item |-> m.item, begin |-> m.begin, end |-> m.end]
      /\ m.item = [j \in D \cup {i} |-> m.item[j]]
  BY <1>1, <1>3
<1>5. IsTrace(m)
  <2>1. \A j \in D \cup {i} : m.item[j] = [func |-> m.item[j].func, prev |-> m.item[j].prev, next |-> m.item[j].next]
    BY <1>4 DEF IsTrace
  <2>2. IsFiniteSet(D \cup {i}) /\ D \cup {i} \subseteq Nat \ {0}
    BY <1>1, FS_AddElement DEF IsTrace
  <2> HIDE DEF rec, D
  <2> QED BY <1>4, <2>1, <2>2 DEF IsTrace
<1> DEFINE void == t.begin = NoItem
           o == IF void THEN NoItem ELSE t.end
           w == IF void THEN NoItem ELSE i
<1>6. Relinked(m, u, o, i, w, t.end, IF void THEN i ELSE t.begin, i)
  <2>1. CASE void
    <3> DEFINE x == [m EXCEPT !.begin = i]
               y == [x EXCEPT !.end = i]
    <3>1. u = y
      BY <1>2, <2>1, <1>4
    <3>2. Relinked(m, x, NoItem, i, NoItem, t.end, i, m.end)
      <4>1. x = [m EXCEPT !.begin = i]
        OBVIOUS
      <4> HIDE DEF x, y
      <4> QED BY <1>5, <4>1, BeginSet
    <3> HIDE DEF x
    <3>3. Relinked(x, y, NoItem, i, NoItem, t.end, x.begin, i)
      <4>1. IsTrace(x)
        BY <3>2, RelinkedTrace
      <4>2. y = [x EXCEPT !.end = i]
        OBVIOUS
      <4> HIDE DEF y
      <4> QED BY <4>1, <4>2, EndSet
    <3> HIDE DEF y
    <3>4. Relinked(m, y, NoItem, i, NoItem, t.end, i, i)
      BY <3>2, <3>3 DEF Relinked
    <3> QED BY <2>1, <3>1, <3>4
  <2>2. CASE ~ void
    <3> DEFINE x == [m EXCEPT !.item[i].prev = t.end]
               y == [x EXCEPT !.item[t.end].next = i]
               z == [y EXCEPT !.end = i]
    <3>1. u = z
      BY <1>2, <2>2
    <3>2. Relinked(m, x, NoItem, i, i, t.end, m.begin, m.end)
      BY <1>5, PrevSet
    <3> HIDE DEF x
    <3>3. Relinked(x, y, t.end, i, NoItem, t.end, x.begin, x.end)
      <4>1. IsTrace(x)
        BY <3>2, RelinkedTrace
      <4> QED BY <4>1, NextSet
    <3> HIDE DEF y
    <3>4. Relinked(y, z, NoItem, i, NoItem, t.end, y.begin, i)
      <4>1. IsTrace(y)
        BY <3>3, RelinkedTrace
      <4>2. z = [y EXCEPT !.end = i]
        OBVIOUS
      <4> HIDE DEF z
      <4> QED BY <4>1, <4>2, EndSet
    <3> HIDE DEF z
    <3>5. Relinked(m, z, t.end, i, i, t.end, t.begin, i)
      <4>0. NoItem \notin DOMAIN m.item
        BY <1>5 DEF IsTrace, NoItem
      <4>1. /\ IsTrace(z) /\ z.begin = t.begin /\ z.end = i
            /\ DOMAIN x.item = DOMAIN m.item /\ DOMAIN y.item = DOMAIN m.item /\ DOMAIN z.item = DOMAIN m.item
        BY <1>4, <3>2, <3>3, <3>4, RelinkedTrace
      <4>2. ASSUME NEW j \in DOMAIN m.item
            PROVE  /\ z.item[j].func = m.item[j].func
                   /\ z.item[j].next = (IF j = t.end THEN i ELSE m.item[j].next)
                   /\ z.item[j].prev = (IF j = i THEN t.end ELSE m.item[j].prev)
        <5>1. /\ x.item[j].func = m.item[j].func /\ x.item[j].next = m.item[j].next
              /\ x.item[j].prev = (IF j = i THEN t.end ELSE m.item[j].prev)
          BY <3>2, <4>0 DEF Relinked
        <5>2. /\ y.item[j].func = x.item[j].func /\ y.item[j].prev = x.item[j].prev
              /\ y.item[j].next = (IF j = t.end THEN i ELSE x.item[j].next)
          BY <3>3, <4>0, <4>1 DEF Relinked
        <5>3. z.item[j].func = y.item[j].func /\ z.item[j].prev = y.item[j].prev /\ z.item[j].next = y.item[j].next
          BY <3>4, <4>0, <4>1 DEF Relinked
        <5> QED BY <5>1, <5>2, <5>3
      <4> QED BY <4>1, <4>2 DEF Relinked
    <3> QED BY <2>2, <3>1, <3>5
  <2> QED BY <2>1, <2>2
<1> HIDE DEF D
<1>7. /\ IsTrace(u) /\ DOMAIN u.item = D \cup {i} /\ u.item[i].func = f
      /\ \A j \in D : u.item[j].func = t.item[j].func
      /\ u.begin = (IF void THEN i ELSE t.begin) /\ u.end = i
      /\ \A j \in D : /\ u.item[j].next = (IF j = o THEN i ELSE t.item[j].next)
                      /\ u.item[j].prev = t.item[j].prev
      /\ u.item[i].next = (IF i = o THEN i ELSE NoItem) /\ u.item[i].prev = (IF i = w THEN t.end ELSE NoItem)
  <2>1. m.item[i].func = f /\ m.item[i].next = NoItem /\ m.item[i].prev = NoItem
    BY <1>4
  <2>2. \A j \in D : j # w
    BY <1>1
  <2> HIDE DEF o, w, void
  <2> QED BY <1>4, <1>6, <2>1, <2>2 DEF Relinked
<1>8. ASSUME NEW q, Strung(t, q)
      PROVE  Strung(u, Extended(q, i)) /\ (Backed(t, q) => Backed(u, Extended(q, i)))
  <2> DEFINE n == Len(q)
             r == Extended(q, i)
  <2>1. n \in Nat /\ D = {q[k] : k \in 1 .. n} /\ (\A j, k \in 1 .. n : q[j] = q[k] => j = k)
        /\ t.begin = (IF n = 0 THEN NoItem ELSE q[1]) /\ t.end = (IF n = 0 THEN NoItem ELSE q[n])
        /\ \A k \in 1 .. n : t.item[q[k]].next = (IF k = n THEN NoItem ELSE q[k + 1])
    BY <1>8, Zenon DEF Strung, D
  <2>2. r = [k \in 1 .. n + 1 |-> IF k = n + 1 THEN i ELSE q[k]]
    BY DEF Extended
  <2> HIDE DEF r, n
  <2>3. r = [k \in 1 .. n + 1 |-> r[k]] /\ r[n + 1] = i /\ (\A k \in 1 .. n : r[k] = q[k] /\ r[k] \in D)
        /\ \A k \in 1 .. n + 1 : r[k] \in D \cup {i}
    <3>1. n + 1 \in 1 .. n + 1 /\ \A k \in 1 .. n : k \in 1 .. n + 1 /\ k # n + 1
      BY <2>1
    <3>2. \A k \in 1 .. n + 1 : k = n + 1 \/ k \in 1 .. n
      BY <2>1
    <3> QED BY <2>1, <2>2, <3>1, <3>2
  <2>4. n + 1 \in Nat /\ Len(r) = n + 1 /\ DOMAIN r = 1 .. n + 1
    <3>1. n + 1 \in Nat /\ r = [k \in 1 .. n + 1 |-> r[k]] /\ \A k \in 1 .. n + 1 : r[k] \in D \cup {i}
      BY <2>1, <2>3
    <3> QED BY <3>1, IsSequence
  <2>5. void <=> n = 0
    <3>1. n # 0 => q[1] # NoItem
      BY <1>1, <2>1
    <3> QED BY <2>1, <3>1
  <2>6. o = (IF n = 0 THEN NoItem ELSE q[n]) /\ w = (IF n = 0 THEN NoItem ELSE i) /\ o # i
    BY <1>1, <2>1, <2>5
  <2> HIDE DEF o, w, void
  <2>7. DOMAIN u.item = {r[k] : k \in 1 .. Len(r)}
    <3>1. \A k \in 1 .. n : k \in 1 .. n + 1
      BY <2>1
    <3>2. D \cup {i} \subseteq {r[k] : k \in 1 .. n + 1}
      <4>1. n + 1 \in 1 .. n + 1
        BY <2>1
      <4>2. i \in {r[k] : k \in 1 .. n + 1}
        BY <2>3, <4>1
      <4>3. ASSUME NEW d \in D PROVE d \in {r[k] : k \in 1 .. n + 1}
        <5>1. PICK k \in 1 .. n : d = q[k]
          BY <2>1
        <5> QED BY <2>3, <3>1, <5>1
      <4> QED BY <4>2, <4>3
    <3> QED BY <1>7, <2>3, <2>4, <3>2
  <2>8. \A j, k \in 1 .. Len(r) : r[j] = r[k] => j = k
    <3> SUFFICES ASSUME NEW j \in 1 .. n + 1, NEW k \in 1 .. n + 1, r[j] = r[k] PROVE j = k
      BY <2>4
    <3>1. (j = n + 1 \/ j \in 1 .. n) /\ (k = n + 1 \/ k \in 1 .. n)
      BY <2>1
    <3> QED BY <1>1, <2>1, <2>3, <3>1, ZenonT(40)
  <2>9. u.begin = r[1] /\ u.end = r[Len(r)] /\ Len(r) # 0
    <3>1. CASE n = 0
      BY <3>1, <1>7, <2>3, <2>4, <2>5
    <3>2. CASE n # 0
      <4>1. 1 \in 1 .. n /\ n + 1 # 0
        BY <3>2, <2>1
      <4>2. u.begin = t.begin /\ t.begin = q[1] /\ r[1] = q[1]
        BY <3>2, <4>1, <1>7, <2>1, <2>3, <2>5
      <4>3. u.end = i /\ r[n + 1] = i
        BY <1>7, <2>3
      <4> QED BY <4>1, <4>2, <4>3, <2>4
    <3> QED BY <3>1, <3>2
  <2>10. \A k \in 1 .. Len(r) : u.item[r[k]].next = (IF k = Len(r) THEN NoItem ELSE r[k + 1])
    <3> SUFFICES ASSUME NEW k \in 1 .. n + 1 PROVE u.item[r[k]].next = (IF k = n + 1 THEN NoItem ELSE r[k + 1])
      BY <2>4
    <3>1. CASE k = n + 1
      BY <3>1, <1>7, <2>3, <2>6
    <3>2. CASE k # n + 1
      <4>1. k \in 1 .. n /\ n # 0 /\ n \in 1 .. n
        BY <3>2, <2>1
      <4>2. r[k] = q[k] /\ q[k] \in D
        BY <4>1, <2>3
      <4>3. u.item[q[k]].next = (IF q[k] = q[n] THEN i ELSE t.item[q[k]].next)
        BY <4>1, <4>2, <1>7, <2>6
      <4>4. q[k] = q[n] <=> k = n
        BY <4>1, <2>1
      <4>5. k # n => k + 1 \in 1 .. n
        BY <4>1, <2>1
      <4> QED BY <3>2, <4>1, <4>2, <4>3, <4>4, <4>5, <2>1, <2>3
    <3> QED BY <3>1, <3>2
  <2>11. Strung(u, r)
    BY <2>4, <2>7, <2>8, <2>9, <2>10 DEF Strung
  <2>12. ASSUME Backed(t, q) PROVE Backed(u, r)
    <3> SUFFICES ASSUME NEW k \in 1 .. n + 1 PROVE u.item[r[k]].prev = (IF k = 1 THEN NoItem ELSE r[k - 1])
      BY <2>4 DEF Backed
    <3>1. CASE k = n + 1
      <4>1. CASE n = 0
        BY <3>1, <4>1, <1>1, <1>7, <2>3, <2>6
      <4>2. CASE n # 0
        <5>1. n \in 1 .. n /\ k - 1 = n /\ k # 1
          BY <3>1, <4>2, <2>1
        <5>2. r[k] = i /\ r[k - 1] = q[n] /\ t.end = q[n] /\ w = i
          BY <3>1, <4>2, <5>1, <2>1, <2>3, <2>6
        <5>3. u.item[i].prev = t.end
          BY <5>2, <1>7
        <5> QED BY <5>1, <5>2, <5>3
      <4> QED BY <4>1, <4>2
    <3>2. CASE k # n + 1
      <4>1. k \in 1 .. n /\ (k # 1 => k - 1 \in 1 .. n)
        BY <3>2, <2>1
      <4>2. t.item[q[k]].prev = (IF k = 1 THEN NoItem ELSE q[k - 1])
        BY <4>1, <2>12 DEF Backed, n
      <4> QED BY <4>1, <4>2, <1>7, <2>3, ZenonT(40)
    <3> QED BY <3>1, <3>2
  <2> QED BY <2>11, <2>12 DEF r
<1>9. Attached(t, f, i, u)
  BY <1>7, <1>8 DEF Attached, D
<1> QED BY <1>9 DEF i, u

(* A next, then a prev.                                                    *)
LEMMA RelinkedTrans ==
    ASSUME NEW t, NEW u, NEW w, IsTrace(t), NEW i, NEW a, NEW b, NEW k, NEW c, NEW d, NEW x, NEW y, NEW v, NEW z,
           Relinked(t, u, i, a, NoItem, c, x, y), Relinked(u, w, NoItem, b, k, d, v, z)
    PROVE  Relinked(t, w, i, a, k, d, v, z)
<1>1. NoItem \notin DOMAIN t.item
  BY DEF IsTrace, NoItem
<1>2. /\ IsTrace(w) /\ w.begin = v /\ w.end = z
      /\ DOMAIN u.item = DOMAIN t.item /\ DOMAIN w.item = DOMAIN t.item
  BY RelinkedTrace
<1>3. ASSUME NEW j \in DOMAIN t.item
      PROVE  /\ w.item[j].func = t.item[j].func
             /\ w.item[j].next = (IF j = i THEN a ELSE t.item[j].next)
             /\ w.item[j].prev = (IF j = k THEN d ELSE t.item[j].prev)
  <2>1. /\ u.item[j].func = t.item[j].func /\ u.item[j].prev = t.item[j].prev
        /\ u.item[j].next = (IF j = i THEN a ELSE t.item[j].next)
    BY <1>1 DEF Relinked
  <2>2. /\ w.item[j].func = u.item[j].func /\ w.item[j].next = u.item[j].next
        /\ w.item[j].prev = (IF j = k THEN d ELSE u.item[j].prev)
    BY <1>1, <1>2 DEF Relinked
  <2> QED BY <2>1, <2>2
<1> QED BY <1>2, <1>3 DEF Relinked

(* What is left when item i goes.                                          *)
Without(t, i, u) ==
    LET it == t.item[i]
    IN /\ IsTrace(u) /\ DOMAIN u.item = DOMAIN t.item \ {i}
       /\ u.begin = (IF it.prev # NoItem THEN t.begin ELSE it.next)
       /\ u.end = (IF it.next # NoItem THEN t.end ELSE it.prev)
       /\ \A j \in DOMAIN u.item : /\ u.item[j].func = t.item[j].func
                                   /\ u.item[j].next = (IF j = it.prev THEN it.next ELSE t.item[j].next)
                                   /\ u.item[j].prev = (IF j = it.next THEN it.next ELSE t.item[j].prev)

(* RemoveItem does just that: the item behind points back at itself        *)
(* (continuation_list_remove).                                             *)
LEMMA RemoveIs ==
    ASSUME NEW t, IsTrace(t), NEW i
    PROVE  IF i \in Traced(t) THEN Without(t, i, RemoveItem(t, i)) ELSE RemoveItem(t, i) = t
<1> DEFINE it == t.item[i]
           before == IF it.prev # NoItem THEN [t EXCEPT !.item[it.prev].next = it.next] ELSE [t EXCEPT !.begin = it.next]
           after == IF it.next # NoItem THEN [before EXCEPT !.item[it.next].prev = it.next] ELSE [before EXCEPT !.end = it.prev]
           u == [after EXCEPT !.item = [j \in DOMAIN @ \ {i} |-> @[j]]]
           b == IF it.prev # NoItem THEN t.begin ELSE it.next
           e == IF it.next # NoItem THEN t.end ELSE it.prev
           N == it.next
           P == it.prev
<1>1. CASE i \notin Traced(t)
  BY <1>1 DEF RemoveItem
<1>2. CASE i \in Traced(t)
  <2>1. RemoveItem(t, i) = u
    BY <1>2 DEF RemoveItem
  <2>2. Relinked(t, before, P, N, NoItem, N, b, t.end)
    <3>1. CASE P # NoItem
      <4>1. before = [t EXCEPT !.item[P].next = N] /\ b = t.begin
        BY <3>1
      <4> HIDE DEF before, P, N, b, it
      <4>2. Relinked(t, [t EXCEPT !.item[P].next = N], P, N, NoItem, N, t.begin, t.end)
        BY NextSet
      <4> QED BY <4>1, <4>2
    <3>2. CASE P = NoItem
      <4>1. before = [t EXCEPT !.begin = N] /\ b = N
        BY <3>2
      <4> HIDE DEF before, P, N, b, it
      <4>2. Relinked(t, before, NoItem, N, NoItem, N, N, t.end)
        BY <4>1, BeginSet
      <4> QED BY <3>2, <4>1, <4>2
    <3> QED BY <3>1, <3>2
  <2>3. Relinked(before, after, NoItem, N, N, N, b, e)
    <3>1. IsTrace(before) /\ before.begin = b /\ before.end = t.end
      <4> HIDE DEF before, P, N, b, it
      <4> QED BY <2>2, RelinkedTrace
    <3>2. CASE N # NoItem
      <4>1. after = [before EXCEPT !.item[N].prev = N] /\ e = t.end
        BY <3>2
      <4> HIDE DEF after, before, P, N, b, e, it
      <4>2. Relinked(before, [before EXCEPT !.item[N].prev = N], NoItem, N, N, N, before.begin, before.end)
        BY <3>1, PrevSet
      <4> QED BY <3>1, <4>1, <4>2
    <3>3. CASE N = NoItem
      <4>1. after = [before EXCEPT !.end = P] /\ e = P
        BY <3>3
      <4> HIDE DEF after, before, P, N, b, e, it
      <4>2. Relinked(before, after, NoItem, N, NoItem, N, before.begin, P)
        BY <3>1, <4>1, EndSet
      <4> QED BY <3>1, <3>3, <4>1, <4>2
    <3> QED BY <3>2, <3>3
  <2>4. Relinked(t, after, P, N, N, N, b, e)
    <3> HIDE DEF after, before, P, N, b, e, it
    <3> QED BY <2>2, <2>3, RelinkedTrans
  <2>5. u = [item |-> [j \in DOMAIN after.item \ {i} |-> after.item[j]], begin |-> after.begin, end |-> after.end]
    <3>1. IsTrace(after)
      <4> HIDE DEF after, before, P, N, b, e, it
      <4> QED BY <2>4, RelinkedTrace
    <3> HIDE DEF after
    <3> QED BY <3>1 DEF IsTrace
  <2> HIDE DEF after, before, u, P, N, b, e
  <2>6. /\ DOMAIN u.item = DOMAIN t.item \ {i} /\ u.begin = b /\ u.end = e
        /\ \A j \in DOMAIN u.item : u.item[j] = after.item[j]
        /\ u = [item |-> u.item, begin |-> u.begin, end |-> u.end]
        /\ u.item = [j \in DOMAIN u.item |-> u.item[j]]
    BY <2>4, <2>5 DEF Relinked
  <2>7. IsTrace(u)
    <3>1. IsTrace(after) /\ DOMAIN after.item = DOMAIN t.item
      BY <2>4, RelinkedTrace
    <3>2. \A j \in DOMAIN u.item : u.item[j] = [func |-> u.item[j].func, prev |-> u.item[j].prev, next |-> u.item[j].next]
      BY <2>6, <3>1 DEF IsTrace
    <3>3. IsFiniteSet(DOMAIN u.item) /\ DOMAIN u.item \subseteq Nat \ {0}
      BY <2>6, FS_Subset DEF IsTrace
    <3> QED BY <2>6, <3>2, <3>3 DEF IsTrace
  <2>8. \A j \in DOMAIN u.item : /\ u.item[j].func = t.item[j].func
                                 /\ u.item[j].next = (IF j = P THEN N ELSE t.item[j].next)
                                 /\ u.item[j].prev = (IF j = N THEN N ELSE t.item[j].prev)
    BY <2>4, <2>6 DEF Relinked
  <2>9. Without(t, i, u)
    BY <2>6, <2>7, <2>8 DEF Without, P, N, b, e
  <2> QED BY <1>2, <2>1, <2>9
<1> QED BY <1>1, <1>2

(* q without its k-th.                                                     *)
Cut(q, k) == [j \in 1 .. Len(q) - 1 |-> IF j < k THEN q[j] ELSE q[j + 1]]

(* A removal from a list that is whole leaves one that can be walked along *)
(* next, and, when it was the only item, an empty one that is whole.       *)
LEMMA CutIs ==
    ASSUME NEW t, IsTrace(t), NEW q, Strung(t, q), Backed(t, q), NEW k \in 1 .. Len(q), NEW u, Without(t, q[k], u)
    PROVE  Strung(u, Cut(q, k)) /\ (Len(q) = 1 => Backed(u, Cut(q, k)))
<1> DEFINE n == Len(q)
           r == Cut(q, k)
           i == q[k]
           it == t.item[i]
           D == DOMAIN t.item
<1>1. /\ n \in Nat /\ D = {q[j] : j \in 1 .. n} /\ (\A j, l \in 1 .. n : q[j] = q[l] => j = l)
      /\ t.begin = (IF n = 0 THEN NoItem ELSE q[1]) /\ t.end = (IF n = 0 THEN NoItem ELSE q[n])
      /\ \A j \in 1 .. n : t.item[q[j]].next = (IF j = n THEN NoItem ELSE q[j + 1])
      /\ \A j \in 1 .. n : t.item[q[j]].prev = (IF j = 1 THEN NoItem ELSE q[j - 1])
      /\ NoItem \notin D
  BY DEF Strung, Backed, IsTrace, NoItem
<1>2. k \in 1 .. n /\ it.next = (IF k = n THEN NoItem ELSE q[k + 1]) /\ it.prev = (IF k = 1 THEN NoItem ELSE q[k - 1])
  BY <1>1
<1>3. /\ DOMAIN u.item = D \ {i}
      /\ u.begin = (IF it.prev # NoItem THEN t.begin ELSE it.next)
      /\ u.end = (IF it.next # NoItem THEN t.end ELSE it.prev)
      /\ \A j \in D \ {i} : u.item[j].next = (IF j = it.prev THEN it.next ELSE t.item[j].next)
  BY DEF Without
<1>4. r = [j \in 1 .. n - 1 |-> IF j < k THEN q[j] ELSE q[j + 1]]
  BY DEF Cut
<1> HIDE DEF n, r, D, it
<1> DEFINE old(j) == IF j < k THEN j ELSE j + 1
<1>5. /\ \A j \in 1 .. n - 1 : r[j] = q[old(j)] /\ old(j) \in 1 .. n /\ old(j) # k
      /\ \A j \in 1 .. n \ {k} : \E l \in 1 .. n - 1 : j = old(l)
      /\ \A j, l \in 1 .. n - 1 : old(j) = old(l) => j = l
  <2>1. \A j \in 1 .. n - 1 : r[j] = q[old(j)] /\ old(j) \in 1 .. n /\ old(j) # k
    BY <1>1, <1>2, <1>4
  <2>2. ASSUME NEW j \in 1 .. n \ {k} PROVE \E l \in 1 .. n - 1 : j = old(l)
    <3>1. CASE j < k
      BY <3>1, <1>1, <1>2
    <3>2. CASE ~ (j < k)
      <4>1. j - 1 \in 1 .. n - 1 /\ j = old(j - 1)
        BY <3>2, <1>1, <1>2
      <4> QED BY <4>1
    <3> QED BY <3>1, <3>2
  <2>3. \A j, l \in 1 .. n - 1 : old(j) = old(l) => j = l
    BY <1>1, <1>2
  <2> QED BY <2>1, <2>2, <2>3
<1>6. n - 1 \in Nat /\ Len(r) = n - 1 /\ DOMAIN r = 1 .. n - 1
  <2>1. n - 1 \in Nat
    BY <1>1, <1>2
  <2>2. r = [j \in 1 .. n - 1 |-> r[j]]
    BY <1>4
  <2>3. ASSUME NEW j \in 1 .. n - 1 PROVE r[j] \in {q[l] : l \in 1 .. n}
    <3>1. r[j] = q[old(j)] /\ old(j) \in 1 .. n
      BY <1>5
    <3> HIDE DEF old
    <3> QED BY <3>1
  <2> QED BY <2>1, <2>2, <2>3, IsSequence
<1>7. DOMAIN u.item = {r[j] : j \in 1 .. n - 1}
  <2>1. ASSUME NEW x \in D \ {i} PROVE x \in {r[j] : j \in 1 .. n - 1}
    <3>1. PICK j \in 1 .. n : x = q[j]
      BY <1>1
    <3>2. j # k
      BY <3>1
    <3>3. PICK l \in 1 .. n - 1 : j = old(l)
      BY <3>2, <1>5
    <3>4. x = r[l]
      BY <1>5, <3>1, <3>3
    <3> QED BY <3>4
  <2>2. ASSUME NEW j \in 1 .. n - 1 PROVE r[j] \in D \ {i}
    <3>1. r[j] = q[old(j)] /\ old(j) \in 1 .. n /\ old(j) # k
      BY <1>5
    <3> HIDE DEF old
    <3> QED BY <1>1, <1>2, <3>1
  <2> QED BY <1>3, <2>1, <2>2
<1>8. \A j, l \in 1 .. n - 1 : r[j] = r[l] => j = l
  <2> SUFFICES ASSUME NEW j \in 1 .. n - 1, NEW l \in 1 .. n - 1, r[j] = r[l] PROVE j = l
    OBVIOUS
  <2>1. q[old(j)] = q[old(l)] /\ old(j) \in 1 .. n /\ old(l) \in 1 .. n
    BY <1>5
  <2>2. old(j) = old(l)
    <3> HIDE DEF old
    <3> QED BY <1>1, <2>1
  <2> QED BY <1>5, <2>2
<1>9. u.begin = (IF n - 1 = 0 THEN NoItem ELSE r[1])
  <2>1. CASE k = 1
    BY <2>1, <1>1, <1>2, <1>3, <1>4
  <2>2. CASE k # 1
    <3>1. k - 1 \in 1 .. n /\ 1 \in 1 .. n - 1 /\ 1 < k /\ n # 0 /\ n - 1 # 0
      BY <2>2, <1>1, <1>2
    <3>2. it.prev # NoItem /\ r[1] = q[1]
      BY <2>2, <3>1, <1>1, <1>2, <1>4
    <3> QED BY <3>1, <3>2, <1>1, <1>3
  <2> QED BY <2>1, <2>2
<1>10. u.end = (IF n - 1 = 0 THEN NoItem ELSE r[n - 1])
  <2>1. CASE k = n
    <3>1. n - 1 # 0 => n - 1 \in 1 .. n - 1 /\ n - 1 < k /\ k # 1
      BY <2>1, <1>1, <1>2
    <3>2. n - 1 = 0 => k = 1
      BY <2>1, <1>1
    <3> QED BY <2>1, <3>1, <3>2, <1>1, <1>2, <1>3, <1>4
  <2>2. CASE k # n
    <3>1. k + 1 \in 1 .. n /\ n - 1 \in 1 .. n - 1 /\ ~ (n - 1 < k) /\ n # 0 /\ n - 1 # 0 /\ (n - 1) + 1 = n
      BY <2>2, <1>1, <1>2
    <3>2. it.next # NoItem /\ r[n - 1] = q[n]
      BY <2>2, <3>1, <1>1, <1>2, <1>4
    <3> QED BY <3>1, <3>2, <1>1, <1>3
  <2> QED BY <2>1, <2>2
<1>11. \A j \in 1 .. n - 1 : u.item[r[j]].next = (IF j = n - 1 THEN NoItem ELSE r[j + 1])
  <2> SUFFICES ASSUME NEW j \in 1 .. n - 1 PROVE u.item[r[j]].next = (IF j = n - 1 THEN NoItem ELSE r[j + 1])
    OBVIOUS
  <2> DEFINE l == old(j)
  <2>1. r[j] = q[l] /\ l \in 1 .. n /\ l # k /\ q[l] \in D /\ q[l] # i
    <3>1. r[j] = q[old(j)] /\ old(j) \in 1 .. n /\ old(j) # k
      BY <1>5
    <3> HIDE DEF old
    <3> QED BY <3>1, <1>1, <1>2
  <2>2. u.item[q[l]].next = (IF q[l] = it.prev THEN it.next ELSE t.item[q[l]].next)
    BY <2>1, <1>3
  <2>3. q[l] = it.prev <=> k # 1 /\ l = k - 1
    <3>1. k # 1 => k - 1 \in 1 .. n
      BY <1>1, <1>2
    <3> HIDE DEF l
    <3> QED BY <1>1, <1>2, <2>1, <3>1
  <2>4. CASE l = k - 1
    <3>1. j = k - 1 /\ k # 1 /\ j + 1 = k /\ (k = n <=> j = n - 1) /\ ~ (k < k)
      BY <2>4, <1>1, <1>2
    <3>2. u.item[q[l]].next = (IF k = n THEN NoItem ELSE q[k + 1])
      <4> HIDE DEF l
      <4> QED BY <2>2, <2>3, <2>4, <3>1, <1>2
    <3>3. k # n => r[j + 1] = q[k + 1]
      <4>1. k # n => k \in 1 .. n - 1
        BY <1>1, <1>2
      <4> QED BY <3>1, <4>1, <1>4
    <3> HIDE DEF l
    <3> QED BY <2>1, <3>1, <3>2, <3>3
  <2>5. CASE l # k - 1
    <3>1. u.item[q[l]].next = (IF l = n THEN NoItem ELSE q[l + 1])
      <4> HIDE DEF l
      <4> QED BY <2>1, <2>2, <2>3, <2>5, <1>1
    <3>2. (l = n <=> j = n - 1) /\ (j # n - 1 => j + 1 \in 1 .. n - 1 /\ old(j + 1) = l + 1)
      BY <2>5, <1>1, <1>2
    <3>3. j # n - 1 => r[j + 1] = q[l + 1]
      <4> HIDE DEF l, old
      <4> QED BY <3>2, <1>5
    <3> HIDE DEF l
    <3> QED BY <2>1, <3>1, <3>2, <3>3
  <2> QED BY <2>4, <2>5
<1>12. Strung(u, r)
  BY <1>6, <1>7, <1>8, <1>9, <1>10, <1>11, Zenon DEF Strung
<1>13. n = 1 => Backed(u, r)
  BY <1>6 DEF Backed
<1> QED BY <1>12, <1>13 DEF r, n

(* There is room for a function object.                                    *)
LEMMA UnusedFuncIs ==
    ASSUME Shape, Cardinality(DOMAIN funcs) < program.funcs
    PROVE  UnusedFunc \notin DOMAIN funcs /\ UnusedFunc \in 1 .. program.funcs
<1> DEFINE D == DOMAIN funcs
<1>1. IsFiniteSet(D) /\ Cardinality(D) \in Nat /\ program.funcs \in Nat /\ Cardinality(D) < program.funcs
  BY ProgramIs
<1>2. \E i \in 1 .. Cardinality(D) + 1 : i \notin D /\ 1 .. i - 1 \subseteq D
  <2> HIDE DEF D
  <2> QED BY <1>1, FirstFree
<1>3. UnusedFunc \in 1 .. Cardinality(D) + 1 /\ UnusedFunc \notin D
  BY <1>2 DEF UnusedFunc
<1> QED BY <1>1, <1>3
-----------------------------------------------------------------------------
(* A new function object.                                                  *)
Made(g, kind, V) ==
    /\ IsFunc(g, V) /\ g.kind = kind /\ g.env \in Envs(stack) \cup {Nil}
    /\ g.item = (IF kind = "cont" THEN UnusedItem(traced) ELSE NoItem)
    /\ kind = "cont" => g.snap = Snapshot(stack) /\ g.turningPoint = stack.size

(* Function makes a function object that is well formed.                   *)
LEMMA FunctionIs ==
    ASSUME IInv, status = "running", NEW kind, NEW address, Pair(address)
    PROVE  Made(Function(kind, address), kind, Worths(Live))
<1> DEFINE V == Worths(Live)
           g == Function(kind, address)
           snap == IF kind = "cont" THEN Snapshot(stack) ELSE <<>>
           turningPoint == IF kind = "cont" THEN stack.size ELSE 0
           env == IF kind \in {"lambda", "promise"} THEN T.env ELSE Nil
           item == IF kind = "cont" THEN UnusedItem(traced) ELSE NoItem
<1>1. Going(stack, V, Home) /\ stack.size \in Nat /\ stack.size # 0 /\ T.env \in Envs(stack)
  BY RunningIs
<1>2. g = [kind |-> kind, address |-> address, cached |-> <<>>, env |-> env, snap |-> snap,
           turningPoint |-> turningPoint, item |-> item]
  BY DEF Function
<1>3. AllSnapped(snap, V) /\ (kind = "cont" => Len(snap) # 0)
  <2>1. CASE kind = "cont"
    <3> HIDE DEF V
    <3> QED BY <2>1, <1>1, SnapshotIs
  <2>2. CASE kind # "cont"
    <3>1. snap = <<>> /\ Len(<<>>) = 0 /\ DOMAIN <<>> = 1 .. 0
      BY <2>2
    <3>2. Len(snap) \in Nat /\ DOMAIN snap = 1 .. Len(snap) /\ \A k \in 1 .. Len(snap) : FALSE
      BY <3>1
    <3> HIDE DEF snap, V
    <3> QED BY <2>2, <3>2 DEF AllSnapped
  <2> QED BY <2>1, <2>2
<1>4. turningPoint \in Nat /\ env \in Envs(stack) \cup {Nil} /\ (kind = "cont" => snap = Snapshot(stack) /\ turningPoint = stack.size)
  BY <1>1
<1>5. <<>> \in Seq(V)
  OBVIOUS
<1>6. item = (IF kind = "cont" THEN UnusedItem(traced) ELSE NoItem)
  OBVIOUS
<1> HIDE DEF g, V, snap, turningPoint, env, item
<1>7. /\ g.kind = kind /\ g.address = address /\ g.cached = <<>> /\ g.env = env /\ g.snap = snap
      /\ g.turningPoint = turningPoint /\ g.item = item
      /\ g = [kind |-> g.kind, address |-> g.address, cached |-> g.cached, env |-> g.env, snap |-> g.snap,
              turningPoint |-> g.turningPoint, item |-> g.item]
  BY <1>2
<1>8. IsFunc(g, V)
  BY <1>3, <1>4, <1>5, <1>7 DEF IsFunc
<1>9. Made(g, kind, V)
  BY <1>4, <1>6, <1>7, <1>8 DEF Made
<1> QED BY <1>9 DEF g, V

(* What Make does, in short.                                               *)
Makes(f, g, kind) ==
    /\ status = "running" /\ status' = "running" /\ program' = program /\ careful' = careful /\ kernels' = kernels
    /\ f \notin DOMAIN funcs /\ f \in 1 .. program.funcs
    /\ DOMAIN funcs' = DOMAIN funcs \cup {f} /\ funcs'[f] = g /\ \A j \in DOMAIN funcs : funcs'[j] = funcs[j]
    /\ held' = held \cup {f} /\ Made(g, kind, Worths(Live))
    /\ Fares(stack, stack', stack.size, stack.size, {}, Worths(Live), Home)
    /\ kind = "cont" => /\ Cardinality(Conts) < program.conts /\ traced' = AppendItem(traced, f)
                        /\ lowest' = [h \in DOMAIN lowest \cup {f} |-> IF h = f THEN stack.size ELSE lowest[h]]
    /\ kind # "cont" => UNCHANGED <<traced, lowest>>

(* The instructions that make function objects.                            *)
LEMMA MakeIs ==
    ASSUME IInv, NEW op, NEW kind, NEW address, Pair(address), Make(op, kind, address)
    PROVE  Makes(UnusedFunc, Function(kind, address), kind)
<1> DEFINE f == UnusedFunc
           g == Function(kind, address)
<1>1. /\ status = "running" /\ status' = status /\ UNCHANGED <<kernels, program, careful>>
      /\ Cardinality(DOMAIN funcs) < program.funcs /\ stack' = Next1(stack)
      /\ kind = "cont" => Cardinality(Conts) < program.conts
      /\ funcs' = [j \in DOMAIN funcs \cup {f} |-> IF j = f THEN g ELSE funcs[j]]
      /\ held' = held \cup {f}
      /\ kind = "cont" => /\ traced' = AppendItem(traced, f)
                          /\ lowest' = [h \in DOMAIN lowest \cup {f} |-> IF h = f THEN stack.size ELSE lowest[h]]
      /\ kind # "cont" => UNCHANGED <<traced, lowest>>
  BY DEF Make, Executes, Becomes
<1>2. f \notin DOMAIN funcs /\ f \in 1 .. program.funcs
  BY <1>1, UnusedFuncIs DEF IInv
<1>3. Made(g, kind, Worths(Live))
  BY <1>1, FunctionIs
<1>4. Fares(stack, Next1(stack), stack.size, stack.size, {}, Worths(Live), Home)
  BY <1>1, RunningIs, Next1Fares
<1> HIDE DEF f, g
<1>5. DOMAIN funcs' = DOMAIN funcs \cup {f} /\ funcs'[f] = g /\ \A j \in DOMAIN funcs : funcs'[j] = funcs[j]
  BY <1>1, <1>2
<1>6. Makes(f, g, kind)
  BY <1>1, <1>2, <1>3, <1>4, <1>5 DEF Makes
<1> QED BY <1>6 DEF f, g

(* They keep the stack, the function objects and the environments.         *)
LEMMA MakesShape ==
    ASSUME IInv, NEW f, NEW g, NEW kind, Makes(f, g, kind)
    PROVE  Shape' /\ Reached' /\ Less /\ Home' = Home
<1>1. Shape /\ Reached
  BY DEF IInv
<1>2. Less /\ Home' = Home
  BY SameLess DEF Makes
<1>3. DOMAIN funcs' = DOMAIN funcs \cup {f} /\ held' = held \cup {f} /\ held \subseteq DOMAIN funcs /\ stack.size \in Nat /\ stack.size # 0
      /\ kernels' = kernels /\ careful' = careful /\ program' = program
  BY RunningIs DEF Makes
<1>4. Worths(Live) \subseteq Worths(Live') /\ Worths(Live)' = Worths(Live')
  BY <1>1, <1>2, <1>3, LiveMore DEF Worths, Fn
<1>5. \A j \in DOMAIN funcs' : IsFunc(funcs'[j], Worths(Live))
  BY <1>1 DEF Makes, Made, Shape
<1>6. \A j \in DOMAIN funcs' : IsFunc(funcs'[j], Worths(Live)')
  BY <1>4, <1>5, FuncLess
<1>7. Going(stack', Worths(Live), Home') /\ stack'.size = stack.size /\ Envs(stack') \subseteq Envs(stack)
  BY <1>2 DEF Makes, Fares
<1>8. DOMAIN funcs' \subseteq 1 .. program.funcs /\ status' = "running"
  BY <1>1 DEF Makes, Shape
<1>9. Shape'
  BY <1>1, <1>2, <1>3, <1>6, <1>7, <1>8, KeepsShape
<1>10. Reached'
  <2>1. ASSUME careful.drop, careful.met
        PROVE  /\ Envs(stack') \subseteq DOMAIN kernels
               /\ \A j \in DOMAIN funcs' : funcs'[j].env \in DOMAIN kernels \cup {Nil}
               /\ \A k \in DOMAIN kernels : kernels[k] = Nil \/ \E j \in held' : funcs'[j].env = kernels[k]
    <3>1. /\ Envs(stack) \subseteq DOMAIN kernels
          /\ \A j \in DOMAIN funcs : funcs[j].env \in DOMAIN kernels \cup {Nil}
          /\ \A k \in DOMAIN kernels : kernels[k] = Nil \/ \E j \in held : funcs[j].env = kernels[k]
      BY <1>1, <2>1 DEF Reached
    <3>2. funcs'[f] = g /\ g.env \in Envs(stack) \cup {Nil} /\ \A j \in DOMAIN funcs : funcs'[j] = funcs[j]
      BY DEF Makes, Made
    <3>3. \A j \in DOMAIN funcs' : funcs'[j].env \in DOMAIN kernels \cup {Nil}
      BY <1>3, <3>1, <3>2
    <3>4. \A k \in DOMAIN kernels : kernels[k] = Nil \/ \E j \in held' : funcs'[j].env = kernels[k]
      BY <1>3, <3>1, <3>2
    <3> QED BY <1>7, <3>1, <3>3, <3>4
  <2>2. Envs(stack)' = Envs(stack')
    BY DEF Envs
  <2> QED BY <1>3, <2>1, <2>2 DEF Reached
<1> QED BY <1>2, <1>9, <1>10

(* They keep the list, with a new continuation at its end.                 *)
LEMMA MakesTracing ==
    ASSUME IInv, NEW f, NEW g, NEW kind, Makes(f, g, kind)
    PROVE  Tracing'
<1>1. /\ Tracing /\ Items /\ IsTrace(traced)
      /\ \A j \in DOMAIN funcs : /\ funcs[j].item \in DOMAIN traced.item \cup {NoItem}
                                 /\ funcs[j].item # NoItem => funcs[j].kind = "cont"
      /\ \A j, h \in DOMAIN funcs : funcs[j].item = funcs[h].item /\ funcs[j].item # NoItem => j = h
  BY DEF IInv, Tracing, Items
<1>2. /\ DOMAIN funcs' = DOMAIN funcs \cup {f} /\ funcs'[f] = g /\ f \notin DOMAIN funcs
      /\ \A j \in DOMAIN funcs : funcs'[j] = funcs[j]
      /\ g.kind = kind /\ g.item = (IF kind = "cont" THEN UnusedItem(traced) ELSE NoItem)
      /\ careful' = careful /\ program' = program
  BY DEF Makes, Made
<1>3. CASE kind = "cont"
  <2> DEFINE i == UnusedItem(traced)
             u == AppendItem(traced, f)
  <2>1. Attached(traced, f, i, u) /\ i \notin DOMAIN traced.item /\ i # NoItem /\ traced' = u
    BY <1>1, <1>3, AppendIs, UnusedItemIs DEF Makes, NoItem
  <2>2. g.item = i
    BY <1>2, <1>3
  <2> HIDE DEF i, u
  <2>3. IsTrace(u) /\ DOMAIN u.item = DOMAIN traced.item \cup {i} /\ u.item[i].func = f
        /\ \A j \in DOMAIN traced.item : u.item[j].func = traced.item[j].func
    BY <2>1 DEF Attached
  <2>4. Items'
    <3>1. IsTrace(traced)'
      BY <2>1, <2>3 DEF IsTrace
    <3>2. \A j \in DOMAIN funcs' : /\ funcs'[j].item \in DOMAIN traced'.item \cup {NoItem}
                                   /\ funcs'[j].item # NoItem => funcs'[j].kind = "cont"
      BY <1>1, <1>2, <1>3, <2>1, <2>2, <2>3
    <3>3. \A j, h \in DOMAIN funcs' : funcs'[j].item = funcs'[h].item /\ funcs'[j].item # NoItem => j = h
      BY <1>1, <1>2, <2>1, <2>2
    <3> QED BY <3>1, <3>2, <3>3 DEF Items
  <2>5. ASSUME careful.removed < 2 \/ program.conts < 2
        PROVE  /\ \E q : /\ Strung(u, q)
                         /\ careful.removed = 0 \/ program.conts < 2 => Backed(u, q)
               /\ Owns'
    <3>1. PICK q : /\ Strung(traced, q)
                   /\ careful.removed = 0 \/ program.conts < 2 => Backed(traced, q)
      BY <1>1, <2>5 DEF Tracing
    <3>2. Strung(u, Extended(q, i)) /\ (Backed(traced, q) => Backed(u, Extended(q, i)))
      BY <2>1, <3>1 DEF Attached
    <3>3. \A j \in DOMAIN traced.item : traced.item[j].func \in DOMAIN funcs /\ funcs[traced.item[j].func].item = j
      BY <1>1, <2>5 DEF Tracing, Owns, Owner
    <3>4. \A j \in DOMAIN u.item : u.item[j].func \in DOMAIN funcs' /\ funcs'[u.item[j].func].item = j
      BY <1>2, <2>2, <2>3, <3>3
    <3>5. Owns'
      BY <2>1, <3>4 DEF Owns, Owner
    <3> QED BY <3>1, <3>2, <3>5
  <2> QED BY <1>2, <2>1, <2>4, <2>5 DEF Tracing, Strung, Backed
<1>4. CASE kind # "cont"
  <2>1. traced' = traced /\ g.item = NoItem
    BY <1>2, <1>4 DEF Makes
  <2>2. Items'
    <3>1. \A j \in DOMAIN funcs' : /\ funcs'[j].item \in DOMAIN traced'.item \cup {NoItem}
                                   /\ funcs'[j].item # NoItem => funcs'[j].kind = "cont"
      BY <1>1, <1>2, <2>1
    <3>2. \A j, h \in DOMAIN funcs' : funcs'[j].item = funcs'[h].item /\ funcs'[j].item # NoItem => j = h
      BY <1>1, <1>2, <2>1
    <3> QED BY <1>1, <2>1, <3>1, <3>2 DEF Items, IsTrace
  <2>3. Owns => Owns'
    BY <1>2, <2>1 DEF Owns, Owner
  <2> QED BY <1>1, <1>2, <2>1, <2>2, <2>3 DEF Tracing, Strung, Backed
<1> QED BY <1>3, <1>4

(* Not two continuations: then there is none before this one.              *)
LEMMA NoContYet ==
    ASSUME Shape, Cardinality(Conts) < program.conts, program.conts < 2
    PROVE  Conts = {}
<1>1. IsFiniteSet(Conts)
  <2>1. IsFiniteSet(DOMAIN funcs) /\ Conts \subseteq DOMAIN funcs
    BY ProgramIs DEF Conts
  <2> QED BY <2>1, FS_Subset
<1>2. Cardinality(Conts) \in Nat /\ program.conts \in Nat
  BY <1>1, FS_CardinalityType, ProgramIs
<1>3. Cardinality(Conts) = 0
  BY <1>2
<1> QED BY <1>1, <1>3, FS_EmptySet

(* A continuation that is made when there is none fits.                    *)
LEMMA MakesLone ==
    ASSUME IInv, NEW f, NEW g, NEW kind, Makes(f, g, kind)
    PROVE  Lone'
<1> DEFINE V == Worths(Live)
<1>1. /\ Shape /\ Lone /\ Home' = Home /\ Going(stack, V, Home) /\ stack.size \in Nat /\ stack.size # 0
      /\ Fares(stack, stack', stack.size, stack.size, {}, V, Home) /\ stack'.size = stack.size
  BY MakesShape, RunningIs DEF Makes, Fares, IInv
<1> HIDE DEF V
<1>2. /\ DOMAIN funcs' = DOMAIN funcs \cup {f} /\ funcs'[f] = g /\ f \notin DOMAIN funcs
      /\ \A j \in DOMAIN funcs : funcs'[j] = funcs[j]
      /\ g.kind = kind /\ g.item = (IF kind = "cont" THEN UnusedItem(traced) ELSE NoItem)
      /\ careful' = careful /\ program' = program /\ status = "running" /\ status' = "running"
  BY DEF Makes, Made
<1>3. Conts' = (IF kind = "cont" THEN Conts \cup {f} ELSE Conts)
  BY <1>2 DEF Conts
<1>4. /\ \A k \in 1 .. stack.size : /\ Frames(stack')[k] = Frames(stack)[k]
                                    /\ stack'.frame[Frames(stack)[k]].start = stack.frame[Frames(stack)[k]].start
  BY <1>1 DEF Fares
<1>5. ASSUME NEW snap, NEW n \in Nat, n <= stack.size, AtHome(snap, stack, n)
      PROVE  AtHome(snap, stack', n)
  <2>1. \A k \in 1 .. n : k \in 1 .. stack.size
    BY <1>1, <1>5
  <2> QED BY <2>1, <1>4, <1>5 DEF AtHome
<1>6. CASE kind = "cont"
  <2>1. Cardinality(Conts) < program.conts /\ DOMAIN lowest = Conts /\ Conts \subseteq DOMAIN funcs
        /\ lowest' = [h \in DOMAIN lowest \cup {f} |-> IF h = f THEN stack.size ELSE lowest[h]]
        /\ g.snap = Snapshot(stack) /\ g.turningPoint = stack.size
    BY <1>1, <1>6 DEF Lone, Makes, Made, Conts
  <2>2. DOMAIN lowest' = Conts' /\ lowest'[f] = stack.size
    BY <1>3, <1>6, <2>1
  <2>3. ASSUME program.conts < 2
        PROVE  Conts' = {f} /\ Single(f)'
    <3>1. Conts' = {f}
      BY <1>1, <1>3, <1>6, <2>1, <2>3, NoContYet
    <3>2. UnusedItem(traced) # NoItem
      BY UnusedItemIs DEF IInv, Tracing, Items, NoItem
    <3>3. Len(g.snap) = stack.size /\ (Home => AtHome(g.snap, stack, stack.size))
      BY <1>1, <2>1, SnapshotIs
    <3>4. Home' => AtHome(funcs'[f].snap, stack', lowest'[f])
      BY <1>1, <1>2, <1>5, <2>2, <3>3
    <3>5. AtHome(funcs[f].snap, stack, lowest[f])' = AtHome(funcs'[f].snap, stack', lowest'[f])
      BY DEF AtHome, Frames, Walk
    <3>6. stack.size <= stack.size
      BY <1>1
    <3>7. Single(f)'
      BY <1>1, <1>2, <1>6, <2>1, <2>2, <3>2, <3>3, <3>4, <3>5, <3>6 DEF Single
    <3> QED BY <3>1, <3>7
  <2> QED BY <1>2, <2>2, <2>3 DEF Lone
<1>7. CASE kind # "cont"
  <2>1. lowest' = lowest /\ Conts' = Conts /\ DOMAIN lowest = Conts /\ Conts \subseteq DOMAIN funcs
    BY <1>1, <1>3, <1>7 DEF Makes, Lone, Conts
  <2>2. ASSUME program.conts < 2, NEW h \in Conts PROVE Single(h)'
    <3>1. Single(h) /\ funcs'[h] = funcs[h] /\ lowest'[h] = lowest[h]
      BY <1>1, <1>2, <2>1, <2>2 DEF Lone
    <3>2. lowest[h] \in Nat /\ lowest[h] <= stack.size
      BY <3>1 DEF Single
    <3>3. Home' => AtHome(funcs'[h].snap, stack', lowest'[h])
      BY <1>1, <1>5, <3>1, <3>2 DEF Single
    <3>4. AtHome(funcs[h].snap, stack, lowest[h])' = AtHome(funcs'[h].snap, stack', lowest'[h])
      BY DEF AtHome, Frames, Walk
    <3> QED BY <1>1, <1>2, <3>1, <3>3, <3>4 DEF Single
  <2> QED BY <1>1, <1>2, <2>1, <2>2 DEF Lone
<1> QED BY <1>6, <1>7

(* FUNCMK, NFUNCMK, LAMBDAMK, PROMMK and CONTMK keep the invariant.        *)
LEMMA MakeStays ==
    ASSUME IInv, NEW op, NEW kind, NEW address, Pair(address), Make(op, kind, address)
    PROVE  IInv'
<1>1. Makes(UnusedFunc, Function(kind, address), kind)
  BY MakeIs
<1>2. Shape' /\ Reached' /\ Tracing' /\ Lone'
  BY <1>1, MakesShape, MakesTracing, MakesLone
<1> QED BY <1>2 DEF IInv
-----------------------------------------------------------------------------
(* At one frame the list is emptied.                                       *)
LEMMA ClearIs ==
    ASSUME NEW t, IsTrace(t)
    PROVE  /\ IsTrace(Clear(t)) /\ DOMAIN Clear(t).item = DOMAIN t.item \ Traced(t)
           /\ \A i \in DOMAIN t.item \ Traced(t) : Clear(t).item[i] = t.item[i]
           /\ Traced(t) = DOMAIN t.item => Strung(Clear(t), <<>>) /\ Backed(Clear(t), <<>>)
<1> DEFINE u == Clear(t)
           D == DOMAIN t.item \ Traced(t)
<1>1. /\ u = [item |-> u.item, begin |-> u.begin, end |-> u.end] /\ u.begin = NoItem /\ u.end = NoItem
      /\ u.item = [i \in D |-> t.item[i]] /\ DOMAIN u.item = D
  BY DEF Clear
<1>2. \A i \in D : u.item[i] = t.item[i]
  BY <1>1
<1>3. D \subseteq DOMAIN t.item
  OBVIOUS
<1> HIDE DEF u, D
<1>4. IsTrace(u)
  <2>1. u.item = [i \in DOMAIN u.item |-> u.item[i]]
    BY <1>1
  <2>2. \A i \in DOMAIN u.item : u.item[i] = [func |-> u.item[i].func, prev |-> u.item[i].prev, next |-> u.item[i].next]
    BY <1>1, <1>2, <1>3 DEF IsTrace
  <2>3. IsFiniteSet(DOMAIN u.item) /\ DOMAIN u.item \subseteq Nat \ {0}
    BY <1>1, <1>3, FS_Subset DEF IsTrace
  <2> QED BY <1>1, <2>1, <2>2, <2>3 DEF IsTrace
<1>5. ASSUME D = {} PROVE Strung(u, <<>>) /\ Backed(u, <<>>)
  <2>1. Len(<<>>) = 0 /\ DOMAIN <<>> = 1 .. 0
    OBVIOUS
  <2> QED BY <1>1, <1>5, <2>1 DEF Strung, Backed
<1>6. Traced(t) = DOMAIN t.item => D = {}
  BY DEF D
<1>7. /\ IsTrace(u) /\ DOMAIN u.item = D /\ \A i \in D : u.item[i] = t.item[i]
      /\ Traced(t) = DOMAIN t.item => Strung(u, <<>>) /\ Backed(u, <<>>)
  BY <1>1, <1>2, <1>4, <1>5, <1>6
<1> QED BY <1>7 DEF u, D

(* g is f with another turning point and item.                             *)
Turned(g, f, n, i) ==
    /\ g.kind = f.kind /\ g.address = f.address /\ g.cached = f.cached /\ g.env = f.env /\ g.snap = f.snap
    /\ g.turningPoint = n /\ g.item = i
    /\ g = [kind |-> g.kind, address |-> g.address, cached |-> g.cached, env |-> g.env, snap |-> g.snap,
            turningPoint |-> g.turningPoint, item |-> g.item]

(* Nothing else of the function object changes.                            *)
LEMMA TurnedIs ==
    ASSUME NEW f, NEW V, IsFunc(f, V), NEW n, NEW i, NEW g, g = [f EXCEPT !.turningPoint = n, !.item = i]
    PROVE  Turned(g, f, n, i)
<1> DEFINE h == [f EXCEPT !.turningPoint = n]
<1>1. f = [kind |-> f.kind, address |-> f.address, cached |-> f.cached, env |-> f.env, snap |-> f.snap,
           turningPoint |-> f.turningPoint, item |-> f.item]
  BY DEF IsFunc
<1>2. h = [kind |-> f.kind, address |-> f.address, cached |-> f.cached, env |-> f.env, snap |-> f.snap,
           turningPoint |-> n, item |-> f.item]
  BY <1>1
<1>3. g = [h EXCEPT !.item = i]
  BY <1>1
<1> HIDE DEF h
<1>4. g = [kind |-> f.kind, address |-> f.address, cached |-> f.cached, env |-> f.env, snap |-> f.snap,
           turningPoint |-> n, item |-> i]
  BY <1>2, <1>3
<1> QED BY <1>4 DEF Turned

(* Every turning point follows the stack down to m, and all are let go     *)
(* when one frame is left.                                                 *)
Lowers(m) ==
    /\ DOMAIN funcs' = DOMAIN funcs
    /\ \A f \in DOMAIN funcs :
         Turned(funcs'[f], funcs[f],
                IF ~ Sound(traced) THEN funcs[f].turningPoint ELSE Lowered(traced, f, funcs[f].turningPoint, m),
                IF Sound(traced) /\ m = 1 /\ funcs[f].item \in Traced(traced) THEN NoItem ELSE funcs[f].item)
    /\ traced' = (IF Sound(traced) /\ m = 1 THEN Clear(traced) ELSE traced)
    /\ status' = (IF ~ Sound(traced) THEN "fault" ELSE IF m = 0 THEN "ended" ELSE "running")

(* The update of the list does just that (continuation_list_update).       *)
LEMMA UpdateIs ==
    ASSUME IInv, status = "running", NEW m, Update(m)
    PROVE  Lowers(m)
<1>1. \A f \in DOMAIN funcs : IsFunc(funcs[f], Worths(Live))
  BY RunningIs
<1>2. CASE ~ Sound(traced)
  <2>1. status' = "fault" /\ funcs' = funcs /\ traced' = traced
    BY <1>2 DEF Update
  <2>2. \A f \in DOMAIN funcs : Turned(funcs[f], funcs[f], funcs[f].turningPoint, funcs[f].item)
    BY <1>1 DEF Turned, IsFunc
  <2> QED BY <1>2, <2>1, <2>2 DEF Lowers
<1>3. CASE Sound(traced)
  <2> DEFINE n(f) == Lowered(traced, f, funcs[f].turningPoint, m)
             i(f) == IF m = 1 /\ funcs[f].item \in Traced(traced) THEN NoItem ELSE funcs[f].item
  <2>1. /\ funcs' = [f \in DOMAIN funcs |-> [funcs[f] EXCEPT !.turningPoint = n(f), !.item = i(f)]]
        /\ traced' = AfterUpdate(traced, m) /\ status' = (IF m = 0 THEN "ended" ELSE "running")
    BY <1>3, Zenon DEF Update
  <2>2. traced' = (IF m = 1 THEN Clear(traced) ELSE traced)
    BY <2>1, Zenon DEF AfterUpdate
  <2>3. ASSUME NEW f \in DOMAIN funcs PROVE Turned(funcs'[f], funcs[f], n(f), i(f))
    <3>1. funcs'[f] = [funcs[f] EXCEPT !.turningPoint = n(f), !.item = i(f)]
      BY <2>1, Zenon
    <3>2. IsFunc(funcs[f], Worths(Live))
      BY <1>1
    <3> HIDE DEF n, i
    <3> QED BY <3>1, <3>2, TurnedIs, Zenon
  <2>4. DOMAIN funcs' = DOMAIN funcs
    BY <2>1, Zenon
  <2> QED BY <1>3, <2>1, <2>2, <2>3, <2>4, Zenon DEF Lowers
<1> QED BY <1>2, <1>3

(* An instruction with which the top leaves the stack.                     *)
Leaving(m) ==
    /\ status = "running" /\ Lowers(m) /\ m = stack.size - 1
    /\ Fares(stack, stack', m, m, {}, Worths(Live), Home)
    /\ lowest' = [f \in DOMAIN lowest |-> IF m < lowest[f] THEN m ELSE lowest[f]]
    /\ UNCHANGED <<kernels, held, program, careful>>

(* It keeps the stack, the function objects and the environments.          *)
LEMMA LeavingShape ==
    ASSUME IInv, NEW m, Leaving(m)
    PROVE  Shape' /\ Reached' /\ Less /\ Home' = Home
<1>1. /\ Shape /\ Reached /\ Less /\ Home' = Home /\ held \subseteq DOMAIN funcs /\ held' = held
      /\ DOMAIN funcs' = DOMAIN funcs /\ kernels' = kernels
  BY SameLess, RunningIs DEF IInv, Leaving, Lowers
<1>2. m \in Nat /\ Going(stack', Worths(Live), Home') /\ stack'.size = m /\ Envs(stack') \subseteq {} \cup Envs(stack)
  <2>1. stack.size \in Nat /\ stack.size # 0
    BY RunningIs DEF Leaving
  <2> QED BY <1>1, <2>1 DEF Leaving, Fares
<1>3. \A f \in DOMAIN funcs' : IsFunc(funcs'[f], Worths(Live))
  <2> SUFFICES ASSUME NEW f \in DOMAIN funcs PROVE IsFunc(funcs'[f], Worths(Live))
    BY <1>1
  <2>1. IsFunc(funcs[f], Worths(Live))
    BY <1>1 DEF Shape
  <2>2. PICK n, i : Turned(funcs'[f], funcs[f], n, i) /\ n \in {m, funcs[f].turningPoint}
    BY DEF Leaving, Lowers, Lowered
  <2>3. n \in Nat
    BY <1>2, <2>1, <2>2 DEF IsFunc
  <2> QED BY <2>1, <2>2, <2>3 DEF Turned, IsFunc
<1>4. Worths(Live) \subseteq Worths(Live') /\ Worths(Live)' = Worths(Live')
  BY <1>1, LiveMore DEF Worths, Fn
<1>5. \A f \in DOMAIN funcs' : IsFunc(funcs'[f], Worths(Live)')
  BY <1>3, <1>4, FuncLess
<1>6. status' \in {"running", "error", "fault", "ended"} /\ (status' = "running" => m # 0)
  BY DEF Leaving, Lowers
<1>7. Shape'
  <2>1. DOMAIN funcs' \subseteq 1 .. program.funcs /\ held' \subseteq DOMAIN funcs' /\ DOMAIN funcs \subseteq DOMAIN funcs'
    BY <1>1 DEF Shape
  <2> QED BY <1>1, <1>2, <1>5, <1>6, <2>1, KeepsShape
<1>8. Reached'
  <2>1. \A f \in DOMAIN funcs : funcs'[f].env = funcs[f].env
    BY DEF Leaving, Lowers, Turned
  <2>2. Joins({})
    BY <1>1 DEF Joins
  <2> QED BY <1>1, <1>2, <2>1, <2>2, KeepsReached
<1> QED BY <1>1, <1>7, <1>8

(* While the list is whole it holds all that are to be followed.           *)
LEMMA Followed ==
    ASSUME Tracing, careful.removed < 2 \/ program.conts < 2
    PROVE  /\ Sound(traced) /\ Traced(traced) = DOMAIN traced.item
           /\ \A f \in DOMAIN funcs : (\E i \in Traced(traced) : Owner(traced, i) = f) <=> funcs[f].item # NoItem
<1>1. IsTrace(traced) /\ Items
  BY DEF Tracing, Items
<1>2. Sound(traced) /\ Traced(traced) = DOMAIN traced.item
  <2>1. PICK q : Strung(traced, q)
    BY DEF Tracing
  <2> QED BY <1>1, <2>1, ChainIs
<1>3. ASSUME NEW f \in DOMAIN funcs, NEW i \in DOMAIN traced.item, Owner(traced, i) = f
      PROVE  funcs[f].item # NoItem
  <2>1. funcs[f].item = i /\ NoItem \notin DOMAIN traced.item
    BY <1>1, <1>3 DEF Tracing, Owns, IsTrace, NoItem
  <2> QED BY <2>1
<1>4. ASSUME NEW f \in DOMAIN funcs, funcs[f].item # NoItem
      PROVE  funcs[f].item \in DOMAIN traced.item /\ Owner(traced, funcs[f].item) = f
  <2> DEFINE i == funcs[f].item
             g == Owner(traced, i)
  <2>1. i \in DOMAIN traced.item
    BY <1>1, <1>4 DEF Items
  <2>2. g \in DOMAIN funcs /\ funcs[g].item = i
    BY <2>1 DEF Tracing, Owns
  <2> HIDE DEF g
  <2>3. g = f
    BY <1>1, <1>4, <2>2 DEF Items
  <2> QED BY <2>1, <2>3 DEF g
<1> QED BY <1>2, <1>3, <1>4

(* It keeps the list.                                                      *)
LEMMA LeavingTracing ==
    ASSUME IInv, NEW m, Leaving(m)
    PROVE  Tracing'
<1>1. /\ Tracing /\ Items /\ IsTrace(traced) /\ careful' = careful /\ program' = program
      /\ \A f \in DOMAIN funcs : /\ funcs[f].item \in DOMAIN traced.item \cup {NoItem}
                                 /\ funcs[f].item # NoItem => funcs[f].kind = "cont"
      /\ \A f, g \in DOMAIN funcs : funcs[f].item = funcs[g].item /\ funcs[f].item # NoItem => f = g
  BY DEF IInv, Tracing, Items, Leaving
<1> DEFINE all == Sound(traced) /\ m = 1
           D == DOMAIN traced.item
           Q == Traced(traced)
<1>2. /\ DOMAIN funcs' = DOMAIN funcs /\ traced' = (IF all THEN Clear(traced) ELSE traced)
      /\ \A f \in DOMAIN funcs : /\ funcs'[f].kind = funcs[f].kind
                                 /\ funcs'[f].item = (IF all /\ funcs[f].item \in Q THEN NoItem ELSE funcs[f].item)
  BY DEF Leaving, Lowers, Turned
<1>3. /\ IsTrace(traced') /\ DOMAIN traced'.item = (IF all THEN D \ Q ELSE D)
      /\ \A i \in DOMAIN traced'.item : traced'.item[i] = traced.item[i]
      /\ all /\ Q = D => Strung(traced', <<>>) /\ Backed(traced', <<>>)
  BY <1>1, <1>2, ClearIs, ZenonT(40)
<1> HIDE DEF all, D, Q
<1>4. Items'
  <2>1. \A f \in DOMAIN funcs' : /\ funcs'[f].item \in DOMAIN traced'.item \cup {NoItem}
                                 /\ funcs'[f].item # NoItem => funcs'[f].kind = "cont"
    BY <1>1, <1>2, <1>3 DEF D
  <2>2. \A f, g \in DOMAIN funcs' : funcs'[f].item = funcs'[g].item /\ funcs'[f].item # NoItem => f = g
    BY <1>1, <1>2
  <2>3. IsTrace(traced)' = IsTrace(traced')
    BY DEF IsTrace
  <2> QED BY <1>3, <2>1, <2>2, <2>3 DEF Items
<1>5. ASSUME careful.removed < 2 \/ program.conts < 2
      PROVE  /\ \E q : /\ Strung(traced', q)
                       /\ careful.removed = 0 \/ program.conts < 2 => Backed(traced', q)
             /\ Owns'
  <2>1. Sound(traced) /\ Q = D
    BY <1>1, <1>5, Followed DEF D, Q
  <2>2. CASE all
    <3>1. Strung(traced', <<>>) /\ Backed(traced', <<>>)
      BY <1>3, <2>1, <2>2
    <3>2. DOMAIN traced'.item = {}
      BY <1>3, <2>1, <2>2
    <3>3. Owns'
      BY <3>2 DEF Owns
    <3> QED BY <3>1, <3>3
  <2>3. CASE ~ all
    <3>1. traced' = traced /\ \A f \in DOMAIN funcs : funcs'[f].item = funcs[f].item
      BY <1>2, <2>3
    <3>2. Owns'
      BY <1>1, <1>2, <1>5, <3>1 DEF Owns, Owner, Tracing
    <3>3. \E q : /\ Strung(traced, q)
                 /\ careful.removed = 0 \/ program.conts < 2 => Backed(traced, q)
      BY <1>1, <1>5 DEF Tracing
    <3> QED BY <3>1, <3>2, <3>3
  <2> QED BY <2>2, <2>3
<1>6. \A q : Strung(traced, q)' = Strung(traced', q) /\ Backed(traced, q)' = Backed(traced', q)
  BY DEF Strung, Backed
<1> QED BY <1>1, <1>4, <1>5, <1>6 DEF Tracing, Strung, Backed

(* A turning point that was the lowest height is so still.                 *)
LEMMA LeavingLone ==
    ASSUME IInv, NEW m, Leaving(m)
    PROVE  Lone'
<1>1. /\ Lone /\ Tracing /\ Items /\ Home' = Home /\ program' = program /\ careful' = careful /\ status = "running"
      /\ stack.size \in Nat /\ stack.size # 0 /\ m = stack.size - 1
  BY LeavingShape, RunningIs DEF IInv, Leaving, Tracing
<1>2. m \in Nat
  BY <1>1
<1>3. /\ stack'.size = m
      /\ \A k \in 1 .. m : /\ Frames(stack')[k] = Frames(stack)[k]
                           /\ stack'.frame[Frames(stack)[k]].start = stack.frame[Frames(stack)[k]].start
  BY DEF Leaving, Fares
<1>4. /\ DOMAIN funcs' = DOMAIN funcs
      /\ \A f \in DOMAIN funcs : funcs'[f].kind = funcs[f].kind /\ funcs'[f].snap = funcs[f].snap
  BY DEF Leaving, Lowers, Turned
<1>5. Conts' = Conts /\ DOMAIN lowest' = Conts /\ Conts \subseteq DOMAIN funcs
      /\ \A f \in Conts : lowest'[f] = (IF m < lowest[f] THEN m ELSE lowest[f])
  BY <1>1, <1>4 DEF Conts, Lone, Leaving
<1>6. ASSUME program.conts < 2
      PROVE  (\A f \in Conts : Single(f)') /\ status' # "fault"
  <2>1. /\ Sound(traced) /\ Traced(traced) = DOMAIN traced.item
        /\ \A f \in DOMAIN funcs : (\E i \in Traced(traced) : Owner(traced, i) = f) <=> funcs[f].item # NoItem
    BY <1>1, <1>6, Followed
  <2>2. status' # "fault" /\ (status' = "running" => m # 0)
    BY <2>1 DEF Leaving, Lowers
  <2>3. ASSUME NEW f \in Conts PROVE Single(f)'
    <3>1. Single(f) /\ f \in DOMAIN funcs
      BY <1>1, <1>5, <1>6 DEF Lone
    <3>2. /\ lowest[f] \in Nat /\ lowest[f] <= stack.size /\ lowest[f] <= Len(funcs[f].snap)
          /\ funcs[f].turningPoint = lowest[f] /\ lowest[f] # 0
          /\ funcs[f].item # NoItem \/ funcs[f].turningPoint = 1
          /\ Home => AtHome(funcs[f].snap, stack, lowest[f])
          /\ Len(funcs[f].snap) \in Nat
      BY <1>1, <3>1 DEF Single, IInv, Shape, IsFunc, AllSnapped
    <3>3. /\ funcs'[f].turningPoint = (IF funcs[f].turningPoint > m /\ funcs[f].item # NoItem THEN m ELSE funcs[f].turningPoint)
          /\ funcs'[f].item = (IF m = 1 /\ funcs[f].item \in DOMAIN traced.item THEN NoItem ELSE funcs[f].item)
          /\ funcs[f].item \in DOMAIN traced.item \cup {NoItem}
      BY <1>1, <2>1, <3>1 DEF Leaving, Lowers, Turned, Lowered, Items
    <3>4. lowest'[f] \in Nat /\ lowest'[f] <= m /\ lowest'[f] <= lowest[f] /\ lowest'[f] <= Len(funcs[f].snap)
      BY <1>2, <1>5, <3>2
    <3>5. ASSUME m # 0
          PROVE  /\ funcs'[f].turningPoint = lowest'[f] /\ lowest'[f] # 0
                 /\ funcs'[f].item # NoItem \/ funcs'[f].turningPoint = 1
      BY <3>5, <1>2, <1>5, <3>2, <3>3
    <3>6. ASSUME Home PROVE AtHome(funcs'[f].snap, stack', lowest'[f])
      <4>1. ASSUME NEW k \in 1 .. lowest'[f]
            PROVE  funcs'[f].snap[k].pc[1] = stack'.frame[Frames(stack')[k]].start[1]
        <5>1. k \in 1 .. lowest[f] /\ k \in 1 .. m
          BY <1>2, <3>2, <3>4
        <5>2. funcs[f].snap[k].pc[1] = stack.frame[Frames(stack)[k]].start[1]
          BY <3>2, <3>6, <5>1 DEF AtHome
        <5> QED BY <1>3, <1>4, <3>1, <5>1, <5>2
      <4> QED BY <4>1 DEF AtHome
    <3>7. AtHome(funcs[f].snap, stack, lowest[f])' = AtHome(funcs'[f].snap, stack', lowest'[f])
      BY DEF AtHome, Frames, Walk
    <3> QED BY <1>1, <1>3, <1>4, <2>2, <3>1, <3>4, <3>5, <3>6, <3>7 DEF Single
  <2> QED BY <2>2, <2>3
<1>7. program.conts < 2 => \A f, g \in Conts : f = g
  BY <1>1 DEF Lone
<1> QED BY <1>1, <1>5, <1>6, <1>7 DEF Lone

(* The top leaves: the invariant is kept.                                  *)
LEMMA LeavesStays ==
    ASSUME IInv, status = "running", NEW op, NEW s, Leaves(op, s),
           Fares(stack, s, stack.size - 1, stack.size - 1, {}, Worths(Live), Home)
    PROVE  IInv'
<1> DEFINE m == stack.size - 1
<1>1. stack' = s /\ s.size = m /\ Lowest(m) /\ Update(m) /\ UNCHANGED <<kernels, held, program, careful>>
  BY DEF Leaves, Becomes, Fares
<1>2. Lowers(m)
  BY <1>1, UpdateIs
<1>3. Leaving(m)
  BY <1>1, <1>2 DEF Leaving, Lowest
<1>4. Shape' /\ Reached' /\ Tracing' /\ Lone'
  BY <1>3, LeavingShape, LeavingTracing, LeavingLone
<1> QED BY <1>4 DEF IInv

(* RETURN keeps it.                                                        *)
LEMMA RETURNStays == ASSUME IInv, RETURN PROVE IInv'
<1>1. status = "running" /\ T.stack # <<>> /\ Leaves("RETURN", Pop(HandOver(stack, Last(T.stack))))
  BY DEF RETURN, Executes
<1>2. Fares(stack, Pop(HandOver(stack, Last(T.stack))), stack.size - 1, stack.size - 1, {}, Worths(Live), Home)
  BY <1>1, RunningIs, ReturnFares
<1> QED BY <1>1, <1>2, LeavesStays

(* RETNONE keeps it.                                                       *)
LEMMA RETNONEStays == ASSUME IInv, RETNONE PROVE IInv'
<1>1. status = "running" /\ Leaves("RETNONE", Pop(HandOver(stack, Null)))
  BY DEF RETNONE, Executes
<1>2. Fares(stack, Pop(HandOver(stack, Null)), stack.size - 1, stack.size - 1, {}, Worths(Live), Home)
  BY <1>1, RunningIs, ReturnFares
<1> QED BY <1>1, <1>2, LeavesStays

(* YIELD keeps it, with a caller and without.                              *)
LEMMA YIELDStays == ASSUME IInv, YIELD PROVE IInv'
<1>1. status = "running" /\ T.stack # <<>>
  BY DEF YIELD, Executes
<1>2. CASE Caller(stack) = Nil
  <2>1. Leaves("RETURN", Pop(stack))
    BY <1>2 DEF YIELD
  <2>2. Fares(stack, Pop(stack), stack.size - 1, stack.size - 1, {}, Worths(Live), Home)
    BY <1>1, RunningIs, PopFares
  <2> QED BY <1>1, <2>1, <2>2, LeavesStays
<1>3. CASE Caller(stack) # Nil
  <2> DEFINE s == Suspend(HandOver(Next1(stack), Last(T.stack)))
  <2>1. Leaves("YIELD", s)
    BY <1>3 DEF YIELD
  <2>2. Fares(stack, s, stack.size - 1, stack.size - 1, {}, Worths(Live), Home)
    BY <1>1, <1>3, RunningIs, YieldFares
  <2> HIDE DEF s
  <2> QED BY <1>1, <2>1, <2>2, LeavesStays
<1> QED BY <1>2, <1>3
-----------------------------------------------------------------------------
(* f is a function on 0 .. N.                                              *)
Indexed(f, N) == f = [n \in 0 .. N |-> f[n]]

(* Two functions on 0 .. N that start alike and go on alike are the same.  *)
LEMMA SameRounds ==
    ASSUME NEW N \in Nat, NEW f, NEW F, Indexed(f, N), Indexed(F, N), F[0] = f[0],
           \A n \in 1 .. N : F[n - 1] = f[n - 1] => F[n] = f[n]
    PROVE  F = f
<1>1. ASSUME NEW b \in 0 .. N, F[b] # f[b] PROVE FALSE
  <2> DEFINE bad == {n \in 0 .. N : F[n] # f[n]}
  <2>1. b \in bad /\ bad \in SUBSET Nat
    BY <1>1
  <2>2. PICK m \in bad : \A k \in bad : m <= k
    BY <2>1, Least
  <2>3. m # 0
    BY <2>2
  <2>4. m - 1 \in 0 .. N /\ ~ (m <= m - 1) /\ m \in 1 .. N
    BY <2>2, <2>3
  <2>5. F[m - 1] = f[m - 1]
    BY <2>2, <2>4
  <2> QED BY <2>2, <2>4, <2>5
<1>2. \A n \in 0 .. N : F[n] = f[n]
  BY <1>1
<1> QED BY <1>2 DEF Indexed

(* The marks on function objects are closed under what the markers go      *)
(* through.                                                                *)
LEMMA MarkedFuncsAre ==
    ASSUME IsFiniteSet(DOMAIN funcs), held \subseteq DOMAIN funcs
    PROVE  /\ MarkedFuncs \subseteq DOMAIN funcs /\ held \subseteq MarkedFuncs
           /\ \A i \in MarkedFrames : FuncsIn(stack.frame[i].stack) \subseteq MarkedFuncs
           /\ \A f \in MarkedFuncs : MarksThrough(f) \subseteq MarkedFuncs
<1> DEFINE D == DOMAIN funcs
           N == Cardinality(DOMAIN funcs)
           base == held \cup UNION {FuncsIn(stack.frame[i].stack) : i \in MarkedFrames}
           R == [f \in D |-> MarksThrough(f)]
           Nth(f, n) == IF n = 0 THEN base ELSE f[n - 1] \cup UNION {MarksThrough(j) : j \in f[n - 1]}
           F == CHOOSE f : f = [n \in 0 .. Cardinality(DOMAIN funcs) |->
                  IF n = 0 THEN held \cup UNION {FuncsIn(stack.frame[i].stack) : i \in MarkedFrames}
                  ELSE f[n - 1] \cup UNION {MarksThrough(j) : j \in f[n - 1]}]
<1>1. IsFiniteSet(D) /\ N \in Nat /\ R \in [D -> SUBSET D] /\ base \in SUBSET D
  <2>1. \A v : FuncsIn(v) \subseteq D
    BY DEF FuncsIn
  <2>2. \A f : MarksThrough(f) \subseteq D
    BY <2>1 DEF MarksThrough
  <2>3. base \in SUBSET D
    BY <2>1
  <2>4. R \in [D -> SUBSET D]
    BY <2>2
  <2> QED BY <2>3, <2>4, FS_CardinalityType
<1>2. \A f \in D : R[f] = MarksThrough(f)
  OBVIOUS
<1>3. MarkedFuncs = F[N] \cap D
  BY DEF MarkedFuncs
<1>13. held \subseteq base /\ \A i \in MarkedFrames : FuncsIn(stack.frame[i].stack) \subseteq base
  OBVIOUS
<1> HIDE DEF D, R, N
<1>4. ASSUME NEW S \in SUBSET D PROVE Further(R, S) = S \cup UNION {MarksThrough(j) : j \in S}
  BY <1>2 DEF Further
<1>5. PICK f : Rounds(f, N, base, R) /\ \A n \in 0 .. N : f[n] \in SUBSET D
  <2> HIDE DEF base
  <2> QED BY <1>1, RoundsExist
<1>6. \A n \in 0 .. N : f[n] = Nth(f, n)
  <2> SUFFICES ASSUME NEW n \in 0 .. N PROVE f[n] = Nth(f, n)
    OBVIOUS
  <2> HIDE DEF base
  <2>1. CASE n = 0
    BY <1>5, <2>1 DEF Rounds
  <2>2. CASE n # 0
    <3>1. n \in 1 .. N /\ n - 1 \in 0 .. N
      BY <1>1, <2>2
    <3>2. f[n] = Further(R, f[n - 1]) /\ f[n - 1] \in SUBSET D
      BY <1>5, <3>1 DEF Rounds
    <3> QED BY <1>4, <2>2, <3>2
  <2> QED BY <2>1, <2>2
<1>7. f = [n \in 0 .. N |-> f[n]]
  BY <1>5 DEF Rounds
<1>8. F = [n \in 0 .. N |-> Nth(F, n)]
  <2>1. f = [n \in 0 .. N |-> Nth(f, n)]
    <3> HIDE DEF Nth
    <3> QED BY <1>6, <1>7
  <2> QED BY <2>1 DEF N
<1> HIDE DEF F, base
<1>9. F = f
  <2>1. \A n \in 0 .. N : F[n] = Nth(F, n)
    <3> HIDE DEF Nth
    <3> QED BY <1>8
  <2>2. F = [n \in 0 .. N |-> F[n]]
    <3> HIDE DEF Nth
    <3> QED BY <1>8
  <2>3. 0 \in 0 .. N
    BY <1>1
  <2>5. F[0] = f[0]
    <3>1. F[0] = Nth(F, 0) /\ f[0] = Nth(f, 0)
      <4> HIDE DEF Nth
      <4> QED BY <1>6, <2>1, <2>3
    <3> QED BY <3>1
  <2>4. ASSUME NEW n \in 1 .. N, F[n - 1] = f[n - 1] PROVE F[n] = f[n]
    <3>1. n \in 0 .. N /\ n # 0
      BY <1>1
    <3> QED BY <1>6, <2>1, <2>4, <3>1
  <2>6. N \in Nat
    BY <1>1
  <2>7. \A n \in 1 .. N : F[n - 1] = f[n - 1] => F[n] = f[n]
    BY <2>4
  <2>8. Indexed(f, N) /\ Indexed(F, N)
    BY <1>7, <2>2 DEF Indexed
  <2> HIDE DEF Nth
  <2> QED BY ONLY <2>5, <2>6, <2>7, <2>8, SameRounds
<1>10. F[N] \in SUBSET D /\ Reaches(base, R, F[N])
  <2>1. N >= Cardinality(D)
    BY <1>1 DEF N, D
  <2> QED BY <1>1, <1>5, <1>9, <2>1, RoundsClose
<1>11. MarkedFuncs = F[N] /\ MarkedFuncs \subseteq D
  BY <1>3, <1>10
<1>12. base \subseteq F[N] /\ \A j \in F[N] : R[j] \subseteq F[N]
  BY <1>10 DEF Reaches
<1>14. \A j \in MarkedFuncs : MarksThrough(j) \subseteq MarkedFuncs
  BY <1>2, <1>11, <1>12
<1> QED BY <1>11, <1>12, <1>13, <1>14 DEF D

(* Only frames on the stack kept generators: all of them are marked.       *)
LEMMA MarkedFramesAre ==
    ASSUME NEW V, NEW home, Going(stack, V, home)
    PROVE  /\ MarkedFrames \subseteq DOMAIN stack.frame
           /\ (\A i \in DOMAIN stack.frame \ ToSet(Frames(stack)) : Generators(stack, i) = <<>>)
                => MarkedFrames = DOMAIN stack.frame
<1> DEFINE q == Frames(stack)
           D == DOMAIN stack.frame
<1>1. PICK own, pos : Whole(stack, own, pos) /\ Ordered(stack, own, pos, Nil, q)
  BY DEF Going, Runs
<1>2. /\ own \in [D -> Owners(stack)] /\ Nil \in Owners(stack)
      /\ DOMAIN q = 1 .. Len(q) /\ Len(q) \in Nat /\ ToSet(q) \subseteq D
  <2>1. Len(q) \in Nat /\ DOMAIN q = 1 .. Len(q) /\ \A k \in 1 .. Len(q) : q[k] \in D
    BY GoingIs DEF Listing
  <2> HIDE DEF q
  <2> QED BY <1>1, <2>1 DEF Whole, Placed, Owners, ToSet
<1>3. \A o \in D : ToSet(Generators(stack, o)) = {j \in D : own[j] = o}
  BY <1>1, GeneratorsAre
<1>4. \A j \in D : own[j] = Nil => j \in ToSet(q)
  <2>1. \A j \in D : own[j] = Nil => pos[j] \in 1 .. Len(q) /\ q[pos[j]] = j
    BY <1>1, <1>2, Neighbours
  <2> QED BY <1>2, <2>1 DEF ToSet
<1>5. MarkedFrames = ToSet(q) \cup UNION {ToSet(Generators(stack, i)) : i \in ToSet(q)}
  BY DEF MarkedFrames
<1>6. MarkedFrames \subseteq D
  BY <1>2, <1>3, <1>5
<1>7. ASSUME \A i \in D \ ToSet(q) : Generators(stack, i) = <<>>, NEW j \in D
      PROVE  j \in MarkedFrames
  <2>1. CASE own[j] = Nil
    BY <1>4, <1>5, <2>1
  <2>2. CASE own[j] # Nil
    <3>1. own[j] \in D /\ j \in ToSet(Generators(stack, own[j]))
      BY <1>2, <1>3, <2>2 DEF Owners
    <3>2. own[j] \in ToSet(q)
      <4>1. ToSet(<<>>) = {}
        BY DEF ToSet
      <4> QED BY <1>7, <3>1, <4>1
    <3> QED BY <1>5, <3>1, <3>2
  <2> QED BY <2>1, <2>2
<1> QED BY <1>6, <1>7

(* When each environment continues one that is there, so does all of the   *)
(* chain.                                                                  *)
LEMMA EnvChainIs ==
    ASSUME IsFiniteSet(DOMAIN kernels), \A k \in DOMAIN kernels : kernels[k] \in DOMAIN kernels \cup {Nil},
           NEW k \in DOMAIN kernels \cup {Nil}
    PROVE  EnvChain(k) \subseteq DOMAIN kernels
<1> DEFINE D == DOMAIN kernels \cup {Nil}
           N == Cardinality(DOMAIN kernels)
           R == [j \in D |-> IF j \in DOMAIN kernels THEN {kernels[j]} ELSE {}]
           Nth(f, n) == IF n = 0 THEN {k} ELSE f[n - 1] \cup {kernels[j] : j \in f[n - 1] \cap DOMAIN kernels}
           F == CHOOSE f : f = [n \in 0 .. Cardinality(DOMAIN kernels) |->
                  IF n = 0 THEN {k}
                  ELSE f[n - 1] \cup {kernels[j] : j \in f[n - 1] \cap DOMAIN kernels}]
<1>1. N \in Nat /\ R \in [D -> SUBSET D] /\ {k} \in SUBSET D
  BY FS_CardinalityType
<1>2. EnvChain(k) = F[N] \ {Nil}
  BY DEF EnvChain
<1>3. \A j \in D : R[j] = (IF j \in DOMAIN kernels THEN {kernels[j]} ELSE {})
  OBVIOUS
<1>12. D \ {Nil} \subseteq DOMAIN kernels
  OBVIOUS
<1>4. ASSUME NEW S \in SUBSET D PROVE Further(R, S) = S \cup {kernels[j] : j \in S \cap DOMAIN kernels}
  <2>1. S \subseteq D
    OBVIOUS
  <2> HIDE DEF R, D
  <2>2. ASSUME NEW j \in S, NEW x \in R[j] PROVE x \in {kernels[h] : h \in S \cap DOMAIN kernels}
    <3>1. j \in DOMAIN kernels /\ x = kernels[j]
      BY <1>3, <2>1, <2>2
    <3> QED BY <3>1
  <2>3. ASSUME NEW j \in S \cap DOMAIN kernels PROVE kernels[j] \in UNION {R[h] : h \in S}
    <3>1. kernels[j] \in R[j]
      BY <1>3, <2>1
    <3> QED BY <3>1
  <2> QED BY <2>2, <2>3 DEF Further
<1> HIDE DEF D, R, N
<1>5. PICK f : Rounds(f, N, {k}, R) /\ \A n \in 0 .. N : f[n] \in SUBSET D
  BY <1>1, RoundsExist
<1>6. \A n \in 0 .. N : f[n] = Nth(f, n)
  <2> SUFFICES ASSUME NEW n \in 0 .. N PROVE f[n] = Nth(f, n)
    OBVIOUS
  <2>1. CASE n = 0
    BY <1>5, <2>1 DEF Rounds
  <2>2. CASE n # 0
    <3>1. n \in 1 .. N /\ n - 1 \in 0 .. N
      BY <1>1, <2>2
    <3>2. f[n] = Further(R, f[n - 1]) /\ f[n - 1] \in SUBSET D
      BY <1>5, <3>1 DEF Rounds
    <3> QED BY <1>4, <2>2, <3>2
  <2> QED BY <2>1, <2>2
<1>7. f = [n \in 0 .. N |-> f[n]]
  BY <1>5 DEF Rounds
<1>8. F = [n \in 0 .. N |-> Nth(F, n)]
  <2>1. f = [n \in 0 .. N |-> Nth(f, n)]
    <3> HIDE DEF Nth
    <3> QED BY <1>6, <1>7
  <2> QED BY <2>1 DEF N
<1> HIDE DEF F
<1>9. F = f
  <2>1. \A n \in 0 .. N : F[n] = Nth(F, n)
    <3> HIDE DEF Nth
    <3> QED BY <1>8
  <2>2. F = [n \in 0 .. N |-> F[n]]
    <3> HIDE DEF Nth
    <3> QED BY <1>8
  <2>3. 0 \in 0 .. N
    BY <1>1
  <2>5. F[0] = f[0]
    <3>1. F[0] = Nth(F, 0) /\ f[0] = Nth(f, 0)
      <4> HIDE DEF Nth
      <4> QED BY <1>6, <2>1, <2>3
    <3> QED BY <3>1
  <2>4. ASSUME NEW n \in 1 .. N, F[n - 1] = f[n - 1] PROVE F[n] = f[n]
    <3>1. n \in 0 .. N /\ n # 0
      BY <1>1
    <3> QED BY <1>6, <2>1, <2>4, <3>1
  <2>6. N \in Nat
    BY <1>1
  <2>7. \A n \in 1 .. N : F[n - 1] = f[n - 1] => F[n] = f[n]
    BY <2>4
  <2>8. Indexed(f, N) /\ Indexed(F, N)
    BY <1>7, <2>2 DEF Indexed
  <2> HIDE DEF Nth
  <2> QED BY ONLY <2>5, <2>6, <2>7, <2>8, SameRounds
<1>10. N \in 0 .. N
  BY <1>1
<1>11. F[N] \in SUBSET D
  BY <1>5, <1>9, <1>10
<1> QED BY <1>2, <1>11, <1>12
-----------------------------------------------------------------------------
(* Untraced, one continuation at a time.                                   *)
Removes(order, n, f) ==
    f = [k \in 0 .. n |-> IF k = 0 THEN traced ELSE RemoveItem(f[k - 1], funcs[order[k]].item)]

(* There is such a function; it is the one in Untraced.                    *)
LEMMA RemovesExist ==
    ASSUME NEW order, NEW n \in Nat
    PROVE  \E f : Removes(order, n, f)
<1> DEFINE Good(m) == \E f : Removes(order, m, f)
           Then(x, k) == RemoveItem(x, funcs[order[k]].item)
<1>1. Good(0)
  <2> DEFINE f == [k \in 0 .. 0 |-> traced]
  <2>1. f = [k \in 0 .. 0 |-> IF k = 0 THEN traced ELSE Then(f[k - 1], k)]
    OBVIOUS
  <2> HIDE DEF f
  <2>2. Removes(order, 0, f)
    BY <2>1 DEF Removes
  <2> QED BY <2>2
<1>2. ASSUME NEW m \in Nat, Good(m) PROVE Good(m + 1)
  <2>1. PICK f : Removes(order, m, f)
    BY <1>2
  <2> HIDE DEF Then
  <2>2. f = [k \in 0 .. m |-> IF k = 0 THEN traced ELSE Then(f[k - 1], k)]
    BY <2>1 DEF Removes, Then
  <2> DEFINE g == [k \in 0 .. m + 1 |-> IF k = m + 1 THEN Then(f[k - 1], k) ELSE f[k]]
  <2>3. \A k \in 0 .. m + 1 : g[k] = (IF k = m + 1 THEN Then(f[k - 1], k) ELSE f[k])
    OBVIOUS
  <2>4. g = [k \in 0 .. m + 1 |-> g[k]]
    OBVIOUS
  <2> HIDE DEF g
  <2>5. ASSUME NEW k \in 0 .. m + 1 PROVE g[k] = (IF k = 0 THEN traced ELSE Then(g[k - 1], k))
    <3>1. CASE k = 0
      <4>1. k # m + 1 /\ k \in 0 .. m
        BY <3>1
      <4> QED BY <2>2, <2>3, <3>1, <4>1
    <3>2. CASE k # 0
      <4>1. k - 1 \in 0 .. m + 1 /\ k - 1 # m + 1 /\ k - 1 \in 0 .. m
        BY <3>2
      <4>2. g[k - 1] = f[k - 1]
        BY <2>3, <4>1
      <4>3. CASE k = m + 1
        BY <2>3, <4>2, <4>3, <3>2
      <4>4. CASE k # m + 1
        <5>1. k \in 0 .. m
          BY <4>4
        <5> QED BY <2>2, <2>3, <3>2, <4>2, <4>4, <5>1
      <4> QED BY <4>3, <4>4
    <3> QED BY <3>1, <3>2
  <2>6. g = [k \in 0 .. m + 1 |-> IF k = 0 THEN traced ELSE Then(g[k - 1], k)]
    BY <2>4, <2>5
  <2>7. Removes(order, m + 1, g)
    BY <2>6 DEF Removes, Then
  <2> QED BY <2>7
<1> HIDE DEF Good
<1>3. ASSUME NEW b \in Nat, ~ Good(b) PROVE FALSE
  <2> DEFINE bad == {m \in Nat : ~ Good(m)}
  <2>1. b \in bad /\ bad \in SUBSET Nat
    BY <1>3
  <2>2. PICK m \in bad : \A k \in bad : m <= k
    BY <2>1, Least
  <2>3. m # 0 /\ m \in Nat /\ ~ Good(m)
    BY <1>1
  <2>4. m - 1 \in Nat /\ (m - 1) + 1 = m /\ ~ (m <= m - 1)
    BY <2>3
  <2>5. Good(m - 1)
    BY <2>2, <2>4
  <2>6. Good((m - 1) + 1)
    BY <1>2, <2>4, <2>5
  <2> QED BY <2>3, <2>4, <2>6
<1> QED BY <1>3 DEF Good

(* Items in I may be gone, and only these.                                 *)
LeftOver(t, u, I) ==
    /\ IsTrace(u) /\ DOMAIN t.item \ I \subseteq DOMAIN u.item /\ DOMAIN u.item \subseteq DOMAIN t.item
    /\ \A j \in DOMAIN u.item : u.item[j].func = t.item[j].func

(* One more item gone.                                                     *)
LEMMA RemoveLeaves ==
    ASSUME NEW t, NEW u, NEW I, LeftOver(t, u, I), NEW i \in I
    PROVE  LeftOver(t, RemoveItem(u, i), I)
<1> DEFINE w == RemoveItem(u, i)
<1>1. IF i \in Traced(u) THEN Without(u, i, w) ELSE w = u
  BY RemoveIs DEF LeftOver
<1> HIDE DEF w
<1>2. CASE i \in Traced(u)
  <2>1. IsTrace(w) /\ DOMAIN w.item = DOMAIN u.item \ {i} /\ \A j \in DOMAIN w.item : w.item[j].func = u.item[j].func
    BY <1>1, <1>2 DEF Without
  <2>2. LeftOver(t, w, I)
    BY <2>1 DEF LeftOver
  <2> QED BY <2>2 DEF w
<1>3. CASE i \notin Traced(u)
  <2>1. LeftOver(t, w, I)
    BY <1>1, <1>3
  <2> QED BY <2>1 DEF w
<1> QED BY <1>2, <1>3

(* What is left after the first n of order have gone.                      *)
Untraces(order, n, u) ==
    /\ LeftOver(traced, u, {funcs[order[k]].item : k \in 1 .. n})
    /\ n = 0 => u = traced
    /\ n = 1 => u = RemoveItem(traced, funcs[order[1]].item)

(* Untraced leaves this.                                                   *)
LEMMA UntracedIs ==
    ASSUME IsTrace(traced), NEW order, NEW n \in Nat, Len(order) = n
    PROVE  Untraces(order, n, Untraced(order))
<1> DEFINE F == CHOOSE f : f = [k \in 0 .. Len(order) |->
                  IF k = 0 THEN traced ELSE RemoveItem(f[k - 1], funcs[order[k]].item)]
           I == {funcs[order[k]].item : k \in 1 .. n}
           Then(k) == IF k = 0 THEN traced ELSE RemoveItem(F[k - 1], funcs[order[k]].item)
<1>1. \E f : Removes(order, n, f)
  BY RemovesExist
<1>2. F = [k \in 0 .. n |-> Then(k)]
  BY <1>1 DEF Removes
<1>3. Untraced(order) = F[n]
  BY DEF Untraced
<1> HIDE DEF F
<1>4. \A k \in 0 .. n : F[k] = Then(k)
  <2> HIDE DEF Then
  <2> QED BY <1>2
<1> DEFINE Claim(k) == LeftOver(traced, F[k], I)
<1>5. F[0] = traced
  <2>1. 0 \in 0 .. n
    OBVIOUS
  <2>2. F[0] = Then(0)
    <3> HIDE DEF Then
    <3> QED BY <1>4, <2>1
  <2> QED BY <2>2
<1>6. Claim(0)
  <2> HIDE DEF I
  <2> QED BY <1>5 DEF LeftOver
<1>7. ASSUME NEW k \in 1 .. n, Claim(k - 1) PROVE Claim(k)
  <2>1. k \in 0 .. n /\ k # 0 /\ funcs[order[k]].item \in I
    OBVIOUS
  <2>2. F[k] = RemoveItem(F[k - 1], funcs[order[k]].item)
    BY <1>4, <2>1
  <2> HIDE DEF I, Then
  <2> QED BY <1>7, <2>1, <2>2, RemoveLeaves
<1>8. ASSUME ~ Claim(n) PROVE FALSE
  <2> HIDE DEF Claim, I, Then
  <2> DEFINE bad == {k \in 0 .. n : ~ Claim(k)}
  <2>1. n \in bad /\ bad \in SUBSET Nat
    BY <1>8
  <2>2. PICK m \in bad : \A k \in bad : m <= k
    BY <2>1, Least
  <2>3. m # 0
    BY <1>6, <2>2
  <2>4. m \in 1 .. n /\ m - 1 \in 0 .. n /\ ~ (m <= m - 1)
    BY <2>2, <2>3
  <2>5. Claim(m - 1)
    BY <2>2, <2>4
  <2> QED BY <1>7, <2>2, <2>4, <2>5
<1>9. ASSUME n = 1 PROVE F[n] = RemoveItem(traced, funcs[order[1]].item)
  <2>1. F[1] = Then(1)
    <3>1. 1 \in 0 .. n
      BY <1>9
    <3> HIDE DEF Then
    <3> QED BY <1>4, <3>1
  <2>2. 1 - 1 = 0 /\ 1 # 0
    OBVIOUS
  <2> QED BY <1>5, <1>9, <2>1, <2>2
<1>10. Untraces(order, n, F[n])
  BY <1>5, <1>8, <1>9 DEF Untraces
<1> QED BY <1>3, <1>10
-----------------------------------------------------------------------------
(* There are finitely many environments.                                   *)
FiniteEnvs == IsFiniteSet(DOMAIN kernels)

(* Continuations that are collected while they are traced.                 *)
Dying == {f \in DOMAIN funcs \ MarkedFuncs : funcs[f].item # NoItem}

(* Only frames on the stack kept generators.                               *)
AllMet == \A i \in DOMAIN stack.frame \ ToSet(Frames(stack)) : Generators(stack, i) = <<>>

(* What is left after a collection.                                        *)
Collected ==
    /\ status = "running" /\ status' = "running" /\ UNCHANGED <<stack, held, program>>
    /\ DOMAIN funcs' = MarkedFuncs /\ \A f \in MarkedFuncs : funcs'[f] = funcs[f]
    /\ DOMAIN lowest' = DOMAIN lowest \ (DOMAIN funcs \ MarkedFuncs)
    /\ \A f \in DOMAIN lowest' : lowest'[f] = lowest[f]
    /\ DOMAIN kernels' = DOMAIN kernels \cap MarkedKernels /\ \A k \in DOMAIN kernels' : kernels'[k] = kernels[k]
    /\ careful' \in Cares /\ careful'.plain = careful.plain /\ careful'.drop = careful.drop
    /\ careful'.met => careful.met /\ AllMet
    /\ careful'.removed = (IF careful.removed + Cardinality(Dying) < 2 THEN careful.removed + Cardinality(Dying) ELSE 2)
    /\ \E order \in SetToSeqs(Dying) : traced' = Untraced(order)

(* The walk over the environments ends well as long as none was let go.    *)
LEMMA ChainsEnd ==
    ASSUME IInv, status = "running", FiniteEnvs, careful.drop, careful.met, NEW k \in MarkedKernels
    PROVE  EnvChain(k) \subseteq DOMAIN kernels
<1>1. /\ Envs(stack) \subseteq DOMAIN kernels
      /\ \A f \in DOMAIN funcs : funcs[f].env \in DOMAIN kernels \cup {Nil}
      /\ \A j \in DOMAIN kernels : kernels[j] = Nil \/ \E f \in held : funcs[f].env = kernels[j]
  BY DEF IInv, Reached
<1>2. MarkedFrames \subseteq DOMAIN stack.frame /\ MarkedFuncs \subseteq DOMAIN funcs /\ held \subseteq DOMAIN funcs
  <2>1. Going(stack, Worths(Live), Home) /\ held \subseteq DOMAIN funcs /\ IsFiniteSet(DOMAIN funcs)
    BY RunningIs, ProgramIs DEF IInv
  <2> QED BY <2>1, MarkedFramesAre, MarkedFuncsAre
<1>3. k \in DOMAIN kernels \cup {Nil}
  BY <1>1, <1>2 DEF MarkedKernels, Envs
<1>4. \A j \in DOMAIN kernels : kernels[j] \in DOMAIN kernels \cup {Nil}
  BY <1>1, <1>2
<1> QED BY <1>3, <1>4, EnvChainIs DEF FiniteEnvs

(* A collection faults only where the program was not careful or has       *)
(* several continuations; otherwise it leaves what is described.           *)
LEMMA CollectIs ==
    ASSUME IInv, FiniteEnvs, Collect
    PROVE  \/ /\ UNCHANGED <<stack, funcs, kernels, traced, held, program, lowest, careful>> /\ status' = "fault"
              /\ ~ (program.conts < 2 /\ careful.drop /\ careful.met)
           \/ Collected
<1> DEFINE dead == DOMAIN funcs \ MarkedFuncs
           gone == DOMAIN kernels \ MarkedKernels
           c == Cardinality(Dying)
           faults == \/ ~ Sound(traced) /\ Dying # {}
                     \/ \E k \in MarkedKernels : ~ (EnvChain(k) \subseteq DOMAIN kernels)
<1>1. status = "running" /\ UNCHANGED <<stack, held, program>>
  BY DEF Collect, Executes
<1>2. CASE faults
  <2>1. status' = "fault" /\ UNCHANGED <<funcs, kernels, traced, lowest, careful>>
    BY <1>2 DEF Collect, Dying
  <2>2. ASSUME program.conts < 2, careful.drop, careful.met PROVE FALSE
    <3>1. Sound(traced)
      BY <2>2, Followed DEF IInv
    <3>2. \A k \in MarkedKernels : EnvChain(k) \subseteq DOMAIN kernels
      BY <1>1, <2>2, ChainsEnd
    <3> QED BY <1>2, <3>1, <3>2
  <2> QED BY <1>1, <2>1, <2>2
<1>3. CASE ~ faults
  <2>1. /\ \E order \in SetToSeqs(Dying) : traced' = Untraced(order)
        /\ funcs' = [f \in MarkedFuncs |-> funcs[f]]
        /\ lowest' = [f \in DOMAIN lowest \ dead |-> lowest[f]]
        /\ kernels' = [k \in DOMAIN kernels \ gone |-> kernels[k]]
        /\ careful' = [careful EXCEPT !.removed = IF careful.removed + c < 2 THEN careful.removed + c ELSE 2,
                                      !.met = careful.met /\ AllMet]
        /\ status' = status
    BY <1>3 DEF Collect, Dying, AllMet
  <2>2. /\ DOMAIN funcs' = MarkedFuncs /\ \A f \in MarkedFuncs : funcs'[f] = funcs[f]
    BY <2>1
  <2>3. /\ DOMAIN lowest' = DOMAIN lowest \ dead /\ \A f \in DOMAIN lowest' : lowest'[f] = lowest[f]
    BY <2>1
  <2>4. /\ DOMAIN kernels' = DOMAIN kernels \cap MarkedKernels /\ \A k \in DOMAIN kernels' : kernels'[k] = kernels[k]
    BY <2>1
  <2>5. /\ careful' \in Cares /\ careful'.plain = careful.plain /\ careful'.drop = careful.drop
        /\ careful'.met = (careful.met /\ AllMet)
        /\ careful'.removed = (IF careful.removed + c < 2 THEN careful.removed + c ELSE 2)
    <3>1. careful \in Cares /\ AllMet \in BOOLEAN
      BY DEF IInv, Shape, AllMet
    <3>2. c \in Nat
      <4>1. IsFiniteSet(DOMAIN funcs) /\ Dying \subseteq DOMAIN funcs
        BY ProgramIs DEF IInv, Dying
      <4> QED BY <4>1, FS_Subset, FS_CardinalityType
    <3> HIDE DEF c, AllMet
    <3>3. (IF careful.removed + c < 2 THEN careful.removed + c ELSE 2) \in 0 .. 2
      BY <3>1, <3>2 DEF Cares
    <3> DEFINE r == IF careful.removed + c < 2 THEN careful.removed + c ELSE 2
               m == careful.met /\ AllMet
    <3>4. careful' = [careful EXCEPT !.removed = r, !.met = m] /\ r \in 0 .. 2 /\ m \in BOOLEAN
      BY <2>1, <3>1, <3>3
    <3> HIDE DEF r, m
    <3>5. careful' \in Cares /\ careful'.plain = careful.plain /\ careful'.drop = careful.drop
          /\ careful'.met = m /\ careful'.removed = r
      BY <3>1, <3>4 DEF Cares
    <3> QED BY <3>5 DEF r, m
  <2> QED BY <1>1, <2>1, <2>2, <2>3, <2>4, <2>5 DEF Collected
<1> QED BY <1>2, <1>3

(* Values that name functions of M only.                                   *)
LEMMA KeptValues ==
    ASSUME NEW x \in Seq(Worths(DOMAIN funcs)), NEW M, FuncsIn(x) \subseteq M
    PROVE  x \in Seq(Worths(M))
<1>1. \A k \in 1 .. Len(x) : x[k] \in Worths(M)
  <2> SUFFICES ASSUME NEW k \in 1 .. Len(x) PROVE x[k] \in Worths(M)
    OBVIOUS
  <2>1. x[k] \in Worths(DOMAIN funcs) /\ x[k] \in ToSet(x)
    BY DEF ToSet
  <2>2. CASE \E g \in DOMAIN funcs : x[k] = Fn(g)
    <3>1. PICK g \in DOMAIN funcs : x[k] = Fn(g)
      BY <2>2
    <3>2. g \in FuncsIn(x)
      BY <2>1, <3>1 DEF FuncsIn
    <3> QED BY <3>1, <3>2 DEF Worths
  <2> QED BY <2>1, <2>2 DEF Worths
<1>2. x = [k \in 1 .. Len(x) |-> x[k]] /\ Len(x) \in Nat
  BY SeqDef
<1> QED BY <1>1, <1>2, IsSequence

(* What is marked, when an instruction may run.                            *)
LEMMA MarkedIs ==
    ASSUME IInv, status = "running"
    PROVE  /\ MarkedFuncs \subseteq DOMAIN funcs /\ held \subseteq MarkedFuncs
           /\ \A i \in MarkedFrames : FuncsIn(stack.frame[i].stack) \subseteq MarkedFuncs
           /\ \A f \in MarkedFuncs : MarksThrough(f) \subseteq MarkedFuncs
           /\ AllMet => MarkedFrames = DOMAIN stack.frame
<1>1. Going(stack, Worths(Live), Home) /\ held \subseteq DOMAIN funcs /\ IsFiniteSet(DOMAIN funcs)
  BY RunningIs, ProgramIs DEF IInv
<1> QED BY <1>1, MarkedFramesAre, MarkedFuncsAre DEF AllMet

(* What is met on computing stacks, and kept in functions, is still there. *)
LEMMA CollectedValues ==
    ASSUME IInv, Collected
    PROVE  /\ \A i \in DOMAIN stack.frame : stack.frame[i].stack \in Seq(Worths(Live'))
           /\ \A f \in MarkedFuncs : IsFunc(funcs[f], Worths(Live'))
<1>1. /\ status = "running" /\ careful'.drop = careful.drop /\ (careful'.met => careful.met /\ AllMet)
      /\ DOMAIN funcs' = MarkedFuncs /\ program' = program
  BY DEF Collected
<1>2. /\ MarkedFuncs \subseteq DOMAIN funcs
      /\ \A i \in MarkedFrames : FuncsIn(stack.frame[i].stack) \subseteq MarkedFuncs
      /\ \A f \in MarkedFuncs : MarksThrough(f) \subseteq MarkedFuncs
      /\ AllMet => MarkedFrames = DOMAIN stack.frame
  BY <1>1, MarkedIs
<1>3. /\ \A i \in DOMAIN stack.frame : stack.frame[i].stack \in Seq(Worths(Live))
      /\ \A f \in DOMAIN funcs : IsFunc(funcs[f], Worths(Live))
      /\ DOMAIN funcs \subseteq 1 .. program.funcs
  BY DEF IInv, Shape, Going, Fine
<1>4. CASE careful'.drop /\ careful'.met
  <2>1. Live = DOMAIN funcs /\ Live' = MarkedFuncs /\ MarkedFrames = DOMAIN stack.frame
    BY <1>1, <1>2, <1>4 DEF Live
  <2>2. \A i \in DOMAIN stack.frame : stack.frame[i].stack \in Seq(Worths(MarkedFuncs))
    BY <1>2, <1>3, <2>1, KeptValues
  <2>3. ASSUME NEW f \in MarkedFuncs PROVE IsFunc(funcs[f], Worths(MarkedFuncs))
    <3> DEFINE g == funcs[f]
    <3>1. IsFunc(g, Worths(DOMAIN funcs))
      BY <1>2, <1>3, <2>1
    <3>2. FuncsIn(g.cached) \subseteq MarkedFuncs /\ \A k \in DOMAIN g.snap : FuncsIn(g.snap[k].stack) \subseteq MarkedFuncs
      BY <1>2 DEF MarksThrough
    <3> HIDE DEF g
    <3>3. g.cached \in Seq(Worths(MarkedFuncs))
      BY <3>1, <3>2, KeptValues DEF IsFunc
    <3>4. AllSnapped(g.snap, Worths(MarkedFuncs))
      <4>1. AllSnapped(g.snap, Worths(DOMAIN funcs))
        BY <3>1 DEF IsFunc
      <4>2. \A k \in 1 .. Len(g.snap) : Snapped(g.snap[k], Worths(MarkedFuncs))
        <5> SUFFICES ASSUME NEW k \in 1 .. Len(g.snap) PROVE Snapped(g.snap[k], Worths(MarkedFuncs))
          OBVIOUS
        <5>1. Snapped(g.snap[k], Worths(DOMAIN funcs)) /\ k \in DOMAIN g.snap
          BY <4>1 DEF AllSnapped
        <5>2. g.snap[k].stack \in Seq(Worths(MarkedFuncs))
          BY <3>2, <5>1, KeptValues DEF Snapped
        <5> QED BY <5>1, <5>2 DEF Snapped
      <4> QED BY <4>1, <4>2 DEF AllSnapped
    <3>5. IsFunc(g, Worths(MarkedFuncs))
      BY <3>1, <3>3, <3>4 DEF IsFunc
    <3> QED BY <3>5 DEF g
  <2> QED BY <2>1, <2>2, <2>3
<1>5. CASE ~ (careful'.drop /\ careful'.met)
  <2>1. Live \subseteq Live'
    BY <1>1, <1>3, <1>5 DEF Live
  <2>2. Worths(Live) \subseteq Worths(Live')
    BY <2>1, WorthsLess
  <2>3. Seq(Worths(Live)) \subseteq Seq(Worths(Live'))
    <3> DEFINE V == Worths(Live)
               W == Worths(Live')
    <3>1. V \subseteq W
      BY <2>2
    <3> HIDE DEF V, W
    <3>2. Seq(V) \subseteq Seq(W)
      BY <3>1
    <3> QED BY <3>2 DEF V, W
  <2>4. \A f \in MarkedFuncs : IsFunc(funcs[f], Worths(Live'))
    BY <1>2, <1>3, <2>2, FuncLess
  <2> QED BY <1>3, <2>3, <2>4
<1> QED BY <1>4, <1>5

(* A collection keeps the stack and the function objects.                  *)
LEMMA CollectedShape ==
    ASSUME IInv, Collected
    PROVE  Shape' /\ Home' = Home
<1>1. /\ Shape /\ status = "running" /\ status' = "running" /\ stack' = stack /\ held' = held /\ program' = program
      /\ DOMAIN funcs' = MarkedFuncs /\ (\A f \in MarkedFuncs : funcs'[f] = funcs[f])
      /\ careful' \in Cares /\ careful'.plain = careful.plain
  BY DEF Collected, IInv
<1>2. Home' = Home
  BY <1>1 DEF Home
<1>3. MarkedFuncs \subseteq DOMAIN funcs /\ held \subseteq MarkedFuncs
  BY <1>1, MarkedIs
<1>4. /\ \A i \in DOMAIN stack.frame : stack.frame[i].stack \in Seq(Worths(Live'))
      /\ \A f \in MarkedFuncs : IsFunc(funcs[f], Worths(Live'))
  BY CollectedValues
<1>5. Going(stack, Worths(Live'), Home)
  BY <1>1, <1>4 DEF Shape, Going, Fine
<1>6. Worths(Live)' = Worths(Live') /\ Going(stack, Worths(Live), Home)' = Going(stack', Worths(Live'), Home')
  BY DEF Worths, Fn, Going, Fine, Runs
<1>7. Shape'
  BY <1>1, <1>2, <1>3, <1>4, <1>5, <1>6 DEF Shape
<1> QED BY <1>2, <1>7

(* It keeps the environments in use.                                       *)
LEMMA CollectedReached ==
    ASSUME IInv, Collected
    PROVE  Reached'
<1>1. /\ status = "running" /\ stack' = stack /\ held' = held
      /\ DOMAIN funcs' = MarkedFuncs /\ (\A f \in MarkedFuncs : funcs'[f] = funcs[f])
      /\ DOMAIN kernels' = DOMAIN kernels \cap MarkedKernels /\ (\A k \in DOMAIN kernels' : kernels'[k] = kernels[k])
      /\ careful'.drop = careful.drop /\ (careful'.met => careful.met /\ AllMet)
  BY DEF Collected
<1>2. ASSUME careful'.drop, careful'.met
      PROVE  /\ Envs(stack) \subseteq DOMAIN kernels'
             /\ \A f \in DOMAIN funcs' : funcs'[f].env \in DOMAIN kernels' \cup {Nil}
             /\ \A k \in DOMAIN kernels' : kernels'[k] = Nil \/ \E f \in held' : funcs'[f].env = kernels'[k]
  <2>1. /\ Envs(stack) \subseteq DOMAIN kernels
        /\ \A f \in DOMAIN funcs : funcs[f].env \in DOMAIN kernels \cup {Nil}
        /\ \A k \in DOMAIN kernels : kernels[k] = Nil \/ \E f \in held : funcs[f].env = kernels[k]
    BY <1>1, <1>2 DEF IInv, Reached
  <2>2. MarkedFuncs \subseteq DOMAIN funcs /\ held \subseteq MarkedFuncs /\ MarkedFrames = DOMAIN stack.frame
    BY <1>1, <1>2, MarkedIs
  <2>3. Envs(stack) \subseteq DOMAIN kernels'
    BY <1>1, <2>1, <2>2 DEF MarkedKernels, Envs
  <2>4. \A f \in DOMAIN funcs' : funcs'[f].env \in DOMAIN kernels' \cup {Nil}
    BY <1>1, <2>1, <2>2 DEF MarkedKernels
  <2>5. \A k \in DOMAIN kernels' : kernels'[k] = Nil \/ \E f \in held' : funcs'[f].env = kernels'[k]
    BY <1>1, <2>1, <2>2
  <2> QED BY <2>3, <2>4, <2>5
<1>3. Envs(stack)' = Envs(stack)
  BY <1>1 DEF Envs
<1> QED BY <1>2, <1>3 DEF Reached

(* The order in which the dying leave the list.                            *)
LEMMA OrderIs ==
    ASSUME Shape, NEW order \in SetToSeqs(Dying)
    PROVE  /\ Cardinality(Dying) \in Nat /\ Len(order) = Cardinality(Dying)
           /\ \A k \in 1 .. Cardinality(Dying) : order[k] \in Dying
           /\ \A j, k \in 1 .. Cardinality(Dying) : order[j] = order[k] => j = k
           /\ Cardinality(Dying) = 0 => Dying = {}
           /\ Cardinality(Dying) = 1 => Dying = {order[1]}
<1> DEFINE n == Cardinality(Dying)
<1>1. IsFiniteSet(Dying) /\ n \in Nat
  <2>1. IsFiniteSet(DOMAIN funcs) /\ Dying \subseteq DOMAIN funcs
    BY ProgramIs DEF Dying
  <2> QED BY <2>1, FS_Subset, FS_CardinalityType
<1>2. order \in [1 .. n -> Dying] /\ \A j, k \in 1 .. n : j # k => order[j] # order[k]
  BY DEF SetToSeqs
<1>3. n = 0 => Dying = {}
  BY <1>1, FS_EmptySet
<1>4. n = 1 => \E x : Dying = {x}
  BY <1>1, FS_Singleton
<1> HIDE DEF n
<1>5. order = [k \in 1 .. n |-> order[k]] /\ \A k \in 1 .. n : order[k] \in Dying
  BY <1>2
<1>6. Len(order) = n
  BY <1>1, <1>5, IsSequence
<1>7. n = 1 => Dying = {order[1]}
  BY <1>4, <1>5
<1>8. \A j, k \in 1 .. n : order[j] = order[k] => j = k
  BY <1>2
<1>9. /\ n \in Nat /\ Len(order) = n /\ (\A k \in 1 .. n : order[k] \in Dying)
      /\ (\A j, k \in 1 .. n : order[j] = order[k] => j = k) /\ (n = 0 => Dying = {}) /\ (n = 1 => Dying = {order[1]})
  BY <1>1, <1>3, <1>5, <1>6, <1>7, <1>8
<1> QED BY <1>9 DEF n

(* One item leaves a list that is whole: what is left can be walked.       *)
LEMMA OneLeaves ==
    ASSUME Tracing, Lone, careful.removed = 0 \/ program.conts < 2, NEW f \in DOMAIN funcs, funcs[f].item # NoItem
    PROVE  LET u == RemoveItem(traced, funcs[f].item)
           IN /\ \E q : Strung(u, q) /\ (program.conts < 2 => Backed(u, q))
              /\ DOMAIN u.item = DOMAIN traced.item \ {funcs[f].item}
              /\ \A j \in DOMAIN u.item : u.item[j].func = traced.item[j].func
<1> DEFINE i == funcs[f].item
           u == RemoveItem(traced, i)
<1>1. IsTrace(traced) /\ Items /\ i \in DOMAIN traced.item /\ Traced(traced) = DOMAIN traced.item /\ Owns
      /\ NoItem \notin DOMAIN traced.item
  BY Followed DEF Tracing, Items, IsTrace, NoItem
<1>2. PICK q : Strung(traced, q) /\ Backed(traced, q)
  BY DEF Tracing
<1>3. Without(traced, i, u)
  BY <1>1, RemoveIs
<1>4. PICK k \in 1 .. Len(q) : q[k] = i
  BY <1>1, <1>2, Zenon DEF Strung
<1> HIDE DEF u
<1>5. Without(traced, q[k], u)
  BY <1>3, <1>4
<1>6. Strung(u, Cut(q, k)) /\ (Len(q) = 1 => Backed(u, Cut(q, k)))
  BY <1>1, <1>2, <1>5, CutIs
<1>7. ASSUME program.conts < 2 PROVE Len(q) = 1
  <2> DEFINE n == Len(q)
  <2>1. n \in Nat /\ (\A a, b \in 1 .. n : q[a] = q[b] => a = b) /\ \A a \in 1 .. n : q[a] \in DOMAIN traced.item
    BY <1>2, Zenon DEF Strung
  <2>2. \A a, b \in DOMAIN traced.item : a = b
    <3> SUFFICES ASSUME NEW a \in DOMAIN traced.item, NEW b \in DOMAIN traced.item PROVE a = b
      OBVIOUS
    <3> DEFINE g == Owner(traced, a)
               h == Owner(traced, b)
    <3>1. g \in DOMAIN funcs /\ h \in DOMAIN funcs /\ funcs[g].item = a /\ funcs[h].item = b
      BY <1>1 DEF Owns
    <3> HIDE DEF g, h
    <3>2. g \in Conts /\ h \in Conts
      BY <1>1, <3>1 DEF Items, Conts
    <3>3. g = h
      BY <1>7, <3>2 DEF Lone
    <3> QED BY <3>1, <3>3
  <2>3. 1 \in 1 .. n /\ n \in 1 .. n
    BY <1>4, <2>1
  <2> HIDE DEF n
  <2>4. q[1] = q[n]
    BY <2>1, <2>2, <2>3
  <2>5. n = 1
    BY <2>1, <2>3, <2>4
  <2> QED BY <2>5 DEF n
<1>8. DOMAIN u.item = DOMAIN traced.item \ {i} /\ \A j \in DOMAIN u.item : u.item[j].func = traced.item[j].func
  BY <1>3 DEF Without
<1>9. \E p : Strung(u, p) /\ (program.conts < 2 => Backed(u, p))
  BY <1>6, <1>7
<1> QED BY <1>8, <1>9 DEF u

(* It keeps the list: after one removal it can be walked still.            *)
LEMMA CollectedTracing ==
    ASSUME IInv, Collected
    PROVE  Tracing'
<1>1. /\ Shape /\ Tracing /\ Lone /\ Items /\ IsTrace(traced) /\ status = "running" /\ program' = program
      /\ DOMAIN funcs' = MarkedFuncs /\ (\A f \in MarkedFuncs : funcs'[f] = funcs[f])
      /\ MarkedFuncs \subseteq DOMAIN funcs
      /\ careful.removed \in 0 .. 2
      /\ careful'.removed = (IF careful.removed + Cardinality(Dying) < 2 THEN careful.removed + Cardinality(Dying) ELSE 2)
  BY MarkedIs DEF Collected, IInv, Tracing, Items, Shape, Cares
<1>2. PICK order \in SetToSeqs(Dying) : traced' = Untraced(order)
  BY DEF Collected
<1> DEFINE n == Cardinality(Dying)
           I == {funcs[order[k]].item : k \in 1 .. n}
<1>3. /\ n \in Nat /\ Len(order) = n /\ (\A k \in 1 .. n : order[k] \in Dying)
      /\ (\A j, k \in 1 .. n : order[j] = order[k] => j = k) /\ (n = 0 => Dying = {}) /\ (n = 1 => Dying = {order[1]})
  BY <1>1, OrderIs
<1>4. /\ LeftOver(traced, traced', I) /\ (n = 0 => traced' = traced)
      /\ n = 1 => traced' = RemoveItem(traced, funcs[order[1]].item)
  <2> HIDE DEF n
  <2>1. Untraces(order, n, Untraced(order))
    BY <1>1, <1>3, UntracedIs
  <2> QED BY <1>2, <2>1 DEF Untraces
<1>5. /\ \A f \in DOMAIN funcs : /\ funcs[f].item \in DOMAIN traced.item \cup {NoItem}
                                 /\ funcs[f].item # NoItem => funcs[f].kind = "cont"
      /\ \A f, g \in DOMAIN funcs : funcs[f].item = funcs[g].item /\ funcs[f].item # NoItem => f = g
  BY <1>1 DEF Items
<1> HIDE DEF n
<1>6. Items'
  <2>1. ASSUME NEW f \in MarkedFuncs, funcs[f].item # NoItem PROVE funcs[f].item \in DOMAIN traced'.item
    <3>1. funcs[f].item \notin I
      <4> SUFFICES ASSUME NEW k \in 1 .. n, funcs[f].item = funcs[order[k]].item PROVE FALSE
        OBVIOUS
      <4>1. order[k] \in DOMAIN funcs \ MarkedFuncs
        BY <1>3 DEF Dying
      <4> QED BY <1>1, <1>5, <2>1, <4>1
    <3> HIDE DEF I
    <3> QED BY <1>1, <1>4, <1>5, <2>1, <3>1 DEF LeftOver
  <2>2. \A f \in DOMAIN funcs' : /\ funcs'[f].item \in DOMAIN traced'.item \cup {NoItem}
                                 /\ funcs'[f].item # NoItem => funcs'[f].kind = "cont"
    BY <1>1, <1>5, <2>1
  <2>3. \A f, g \in DOMAIN funcs' : funcs'[f].item = funcs'[g].item /\ funcs'[f].item # NoItem => f = g
    BY <1>1, <1>5
  <2>4. IsTrace(traced)'
    <3>1. IsTrace(traced)' = IsTrace(traced')
      BY DEF IsTrace
    <3> QED BY <1>4, <3>1 DEF LeftOver
  <2> QED BY <2>2, <2>3, <2>4 DEF Items
<1>7. ASSUME careful'.removed < 2 \/ program.conts < 2
      PROVE  n \in {0, 1} /\ (careful.removed < 2 \/ program.conts < 2)
             /\ (n = 1 => careful.removed = 0 \/ program.conts < 2)
             /\ (careful'.removed = 0 => n = 0 /\ careful.removed = 0)
  <2>1. careful'.removed = (IF careful.removed + n < 2 THEN careful.removed + n ELSE 2) /\ careful.removed \in 0 .. 2
    BY <1>1 DEF n
  <2>2. careful'.removed = 0 => n = 0 /\ careful.removed = 0
    BY <1>3, <2>1
  <2>3. CASE careful'.removed < 2
    BY <1>3, <2>1, <2>3
  <2>4. CASE program.conts < 2
    <3>1. ~ (n \in {0, 1}) => 1 \in 1 .. n /\ 2 \in 1 .. n
      BY <1>3
    <3>2. \A k \in 1 .. n : order[k] \in Conts
      BY <1>3, <1>5 DEF Dying, Conts
    <3>3. \A f, g \in Conts : f = g
      BY <1>1, <2>4 DEF Lone
    <3>4. n \in {0, 1}
      BY <1>3, <3>1, <3>2, <3>3
    <3> QED BY <2>2, <2>4, <3>4
  <2> QED BY <1>7, <2>3, <2>4
<1>8. ASSUME careful'.removed < 2 \/ program.conts < 2
      PROVE  /\ \E q : /\ Strung(traced', q)
                       /\ careful'.removed = 0 \/ program.conts < 2 => Backed(traced', q)
             /\ Owns'
  <2>1. CASE n = 0
    <3>1. traced' = traced /\ Dying = {}
      BY <1>3, <1>4, <2>1
    <3>2. /\ \E q : /\ Strung(traced, q)
                    /\ careful.removed = 0 \/ program.conts < 2 => Backed(traced, q)
          /\ Owns
      BY <1>1, <1>7, <1>8 DEF Tracing
    <3>3. \A i \in DOMAIN traced.item : Owner(traced, i) \in MarkedFuncs /\ funcs[Owner(traced, i)].item = i
      <4>1. NoItem \notin DOMAIN traced.item
        BY <1>1 DEF IsTrace, NoItem
      <4> QED BY <3>1, <3>2, <4>1 DEF Owns, Dying
    <3>4. Owns'
      BY <1>1, <3>1, <3>3 DEF Owns, Owner
    <3>5. \E q : /\ Strung(traced', q)
                 /\ careful'.removed = 0 \/ program.conts < 2 => Backed(traced', q)
      BY <1>7, <1>8, <3>1, <3>2
    <3> QED BY <3>4, <3>5
  <2>2. CASE n = 1
    <3> DEFINE f == order[1]
               i == funcs[f].item
    <3>1. Dying = {f} /\ f \in DOMAIN funcs /\ i # NoItem /\ traced' = RemoveItem(traced, i)
      BY <1>3, <1>4, <2>2 DEF Dying
    <3> HIDE DEF f
    <3>2. /\ \E q : Strung(traced', q) /\ (program.conts < 2 => Backed(traced', q))
          /\ DOMAIN traced'.item = DOMAIN traced.item \ {i}
          /\ \A j \in DOMAIN traced'.item : traced'.item[j].func = traced.item[j].func
      BY <1>1, <1>7, <1>8, <2>2, <3>1, OneLeaves
    <3>3. careful'.removed # 0
      BY <1>7, <1>8, <2>2
    <3>4. Owns /\ NoItem \notin DOMAIN traced.item
      BY <1>1, <1>7, <1>8 DEF Tracing, IsTrace, NoItem
    <3>5. ASSUME NEW j \in DOMAIN traced'.item
          PROVE  traced'.item[j].func \in DOMAIN funcs' /\ funcs'[traced'.item[j].func].item = j
      <4> DEFINE g == Owner(traced, j)
      <4>1. g \in DOMAIN funcs /\ funcs[g].item = j /\ j # i /\ j # NoItem /\ traced'.item[j].func = g
        BY <3>2, <3>4 DEF Owns, Owner
      <4> HIDE DEF g
      <4>2. g \in MarkedFuncs
        BY <3>1, <4>1 DEF Dying
      <4> QED BY <1>1, <4>1, <4>2
    <3>6. Owns'
      BY <3>5 DEF Owns, Owner
    <3> QED BY <3>2, <3>3, <3>6
  <2> QED BY <1>7, <1>8, <2>1, <2>2
<1>9. \A q : Strung(traced, q)' = Strung(traced', q) /\ Backed(traced, q)' = Backed(traced', q)
  BY DEF Strung, Backed
<1> QED BY <1>1, <1>6, <1>8, <1>9 DEF Tracing, Strung, Backed

(* A continuation that is alone fits still.                                *)
LEMMA CollectedLone ==
    ASSUME IInv, Collected
    PROVE  Lone'
<1>1. /\ Lone /\ status = "running" /\ status' = "running" /\ stack' = stack /\ program' = program
      /\ DOMAIN funcs' = MarkedFuncs /\ (\A f \in MarkedFuncs : funcs'[f] = funcs[f])
      /\ DOMAIN lowest' = DOMAIN lowest \ (DOMAIN funcs \ MarkedFuncs)
      /\ (\A f \in DOMAIN lowest' : lowest'[f] = lowest[f]) /\ Home' = Home /\ MarkedFuncs \subseteq DOMAIN funcs
  BY CollectedShape, MarkedIs DEF Collected, IInv
<1>2. DOMAIN lowest = Conts
  BY <1>1 DEF Lone
<1>3. DOMAIN lowest' = Conts' /\ Conts' \subseteq Conts
  BY <1>1, <1>2 DEF Conts
<1>4. ASSUME program.conts < 2, NEW f \in Conts' PROVE Single(f)'
  <2>1. Single(f) /\ funcs'[f] = funcs[f] /\ lowest'[f] = lowest[f]
    BY <1>1, <1>3, <1>4 DEF Lone, Conts
  <2>2. AtHome(funcs[f].snap, stack, lowest[f])' = AtHome(funcs'[f].snap, stack', lowest'[f])
    BY DEF AtHome, Frames, Walk
  <2> QED BY <1>1, <2>1, <2>2 DEF Single
<1>5. ASSUME program.conts < 2 PROVE \A f, g \in Conts' : f = g
  BY <1>1, <1>3, <1>5 DEF Lone
<1> QED BY <1>1, <1>3, <1>4, <1>5 DEF Lone

(* A collection keeps the invariant.                                       *)
LEMMA CollectStays == ASSUME IInv, FiniteEnvs, Collect PROVE IInv'
<1>1. CASE Collected
  <2>1. Shape' /\ Reached' /\ Tracing' /\ Lone'
    BY <1>1, CollectedShape, CollectedReached, CollectedTracing, CollectedLone
  <2> QED BY <2>1 DEF IInv
<1>2. CASE /\ UNCHANGED <<stack, funcs, kernels, traced, held, program, lowest, careful>> /\ status' = "fault"
           /\ ~ (program.conts < 2 /\ careful.drop /\ careful.met)
  BY <1>2, Stops
<1> QED BY <1>1, <1>2, CollectIs

(* Every instruction, and every collection, keeps the invariant.           *)
LEMMA NextStays == ASSUME IInv, FiniteEnvs, Next PROVE IInv'
<1>1. ASSUME NEW v \in Values, PUSH(v) PROVE IInv'
  BY <1>1, PUSHStays
<1>2. CASE POP
  BY <1>2, POPStays
<1>3. CASE FUNCMK
  <2>1. Pair(<<"host", 0>>)
    BY DEF Pair
  <2> QED BY <1>3, <2>1, MakeStays DEF FUNCMK
<1>4. ASSUME NEW a \in Addresses, NFUNCMK(a) \/ LAMBDAMK(a) \/ PROMMK(a) \/ CONTMK(a) PROVE IInv'
  <2>1. Pair(a)
    BY DEF Pair, Addresses
  <2>2. CASE NFUNCMK(a)
    BY <2>1, <2>2, MakeStays DEF NFUNCMK
  <2>3. CASE LAMBDAMK(a)
    BY <2>1, <2>3, MakeStays DEF LAMBDAMK
  <2>4. CASE PROMMK(a)
    BY <2>1, <2>4, MakeStays DEF PROMMK
  <2>5. CASE CONTMK(a)
    BY <2>1, <2>5, MakeStays DEF CONTMK
  <2> QED BY <1>4, <2>2, <2>3, <2>4, <2>5
<1>5. ASSUME NEW op \in {"CALL", "TAILCALL"}, NEW f \in held,
             \/ \E v \in Answers(f) : CallAnswers(op, f, v)
             \/ \E n \in program.args : CallFunction(op, f, n) \/ CallContinuation(op, f, n)
      PROVE  IInv'
  <2>1. ASSUME NEW v \in Answers(f), CallAnswers(op, f, v) PROVE IInv'
    BY <2>1, CallAnswersStays
  <2>2. ASSUME NEW n \in program.args, CallFunction(op, f, n) PROVE IInv'
    BY <2>2, CallFunctionStays
  <2>3. ASSUME NEW n \in program.args, CallContinuation(op, f, n) PROVE IInv'
    BY <2>3, CallContinuationStays
  <2> QED BY <1>5, <2>1, <2>2, <2>3
<1>6. CASE RETURN \/ YIELD \/ RETNONE \/ RETURNTO
  BY <1>6, RETURNStays, YIELDStays, RETNONEStays, RETURNTOStays
<1>7. ASSUME NEW n \in 1 .. program.height, LIFT(n) PROVE IInv'
  BY <1>7, LIFTStays
<1>8. CASE TRAPSET \/ TRAP
  BY <1>8, TRAPSETStays, TRAPStays
<1>9. ASSUME NEW f \in held, NEW v \in Values, PROMC(f, v) PROVE IInv'
  BY <1>9, PROMCStays
<1>10. CASE Fails
  BY <1>10, FailsStays
<1>11. CASE Collect
  BY <1>11, CollectStays
<1>12. ASSUME NEW f \in held, Discard(f) PROVE IInv'
  BY <1>12, DiscardStays
<1> QED BY <1>1, <1>2, <1>3, <1>4, <1>5, <1>6, <1>7, <1>8, <1>9, <1>10, <1>11, <1>12 DEF Next
-----------------------------------------------------------------------------
(* Environments are added one by one, or with the frames of a stack.       *)
LEMMA FiniteMore ==
    ASSUME FiniteEnvs, NEW X, IsFiniteSet(X), DOMAIN kernels' \subseteq DOMAIN kernels \cup X
    PROVE  FiniteEnvs'
<1>1. IsFiniteSet(DOMAIN kernels \cup X)
  BY FS_Union DEF FiniteEnvs
<1> QED BY <1>1, FS_Subset DEF FiniteEnvs

(* And the environments finite.                                            *)
LEMMA FiniteStays ==
    ASSUME IInv, FiniteEnvs, Next, IInv'
    PROVE  FiniteEnvs'
<1>1. ASSUME kernels' = kernels PROVE FiniteEnvs'
  BY <1>1 DEF FiniteEnvs
<1>2. ASSUME NEW op, NEW f, NEW n, CallFunction(op, f, n) PROVE FiniteEnvs'
  <2> DEFINE k == NewKernel(1)
  <2>1. DOMAIN kernels' \subseteq DOMAIN kernels \cup {k}
    BY <1>2 DEF CallFunction, Environments
  <2>2. IsFiniteSet({k})
    BY FS_Singleton
  <2> HIDE DEF k
  <2> QED BY <2>1, <2>2, FiniteMore
<1>3. ASSUME NEW op, NEW f, NEW n, CallContinuation(op, f, n) PROVE FiniteEnvs'
  <2>1. CASE Preserved(f) > stack.size
    BY <1>1, <1>3, <2>1 DEF CallContinuation, Fault
  <2>2. CASE ~ (Preserved(f) > stack.size)
    <3> DEFINE X == {stack'.frame[i].env : i \in DOMAIN stack'.frame}
               s == Finish(op, GoBack(f, n))
    <3>1. stack' = s /\ DOMAIN kernels' = DOMAIN kernels \cup {s.frame[i].env : i \in DOMAIN s.frame}
      BY <1>3, <2>2 DEF CallContinuation, Becomes, Environments
    <3> HIDE DEF s
    <3>2. DOMAIN kernels' \subseteq DOMAIN kernels \cup X
      BY <3>1
    <3>3. IsFiniteSet(DOMAIN stack'.frame)
      <4>1. IsStack(stack)'
        BY GoingIs DEF IInv, Shape, Going, Runs, Whole
      <4> QED BY <4>1 DEF IsStack
    <3>4. IsFiniteSet(X)
      <4> DEFINE fs == stack'.frame
                 D == DOMAIN fs
                 F == [i \in D |-> fs[i].env]
      <4>1. IsFiniteSet(D)
        BY <3>3
      <4>2. X = {fs[i].env : i \in D}
        BY DEF X
      <4> HIDE DEF fs, X, D
      <4>3. F \in Surjection(D, X)
        BY <4>2 DEF Surjection
      <4> QED BY <4>1, <4>3, FS_Surjection
    <3> HIDE DEF X
    <3> QED BY <3>2, <3>4, FiniteMore
  <2> QED BY <2>1, <2>2
<1>4. CASE Collect
  <2>1. DOMAIN kernels' \subseteq DOMAIN kernels \cup {}
    BY <1>4 DEF Collect
  <2>2. IsFiniteSet({})
    BY FS_EmptySet
  <2> QED BY <2>1, <2>2, FiniteMore
<1>5. ASSUME NEW op, NEW kind, NEW a, Make(op, kind, a) PROVE FiniteEnvs'
  BY <1>1, <1>5 DEF Make
<1>6. ASSUME NEW op, NEW s, Leaves(op, s) PROVE FiniteEnvs'
  BY <1>1, <1>6 DEF Leaves
<1>7. ASSUME NEW op \in {"CALL", "TAILCALL"}, NEW f \in held,
             \/ \E v \in Answers(f) : CallAnswers(op, f, v)
             \/ \E n \in program.args : CallFunction(op, f, n) \/ CallContinuation(op, f, n)
      PROVE  FiniteEnvs'
  BY <1>1, <1>2, <1>3, <1>7 DEF CallAnswers
<1>8. CASE FUNCMK \/ \E a \in Addresses : NFUNCMK(a) \/ LAMBDAMK(a) \/ PROMMK(a) \/ CONTMK(a)
  BY <1>5, <1>8 DEF FUNCMK, NFUNCMK, LAMBDAMK, PROMMK, CONTMK
<1>9. CASE RETURN \/ YIELD \/ RETNONE
  BY <1>6, <1>9 DEF RETURN, YIELD, RETNONE
<1>10. CASE (\E v \in Values : PUSH(v)) \/ POP \/ RETURNTO \/ (\E n \in 1 .. program.height : LIFT(n)) \/ TRAPSET \/ TRAP
  BY <1>1, <1>10 DEF PUSH, POP, RETURNTO, LIFT, TRAPSET, TRAP
<1>11. CASE (\E f \in held, v \in Values : PROMC(f, v)) \/ Fails \/ (\E f \in held : Discard(f))
  BY <1>1, <1>11 DEF PROMC, Fails, Discard
<1> QED BY <1>4, <1>7, <1>8, <1>9, <1>10, <1>11 DEF Next
-----------------------------------------------------------------------------
(* The stack with no frames.                                               *)
LEMMA EmptyGoing == ASSUME NEW V, NEW home PROVE Going(Empty, V, home) /\ Empty.size = 0
<1> DEFINE f == [x \in {} |-> Nil]
<1>1. /\ Empty = [frame |-> Empty.frame, bottom |-> Nil, top |-> Nil, size |-> 0]
      /\ Empty.bottom = Nil /\ Empty.top = Nil /\ Empty.size = 0
  BY DEF Empty
<1>2. Empty.frame = [i \in DOMAIN Empty.frame |-> Empty.frame[i]] /\ DOMAIN Empty.frame = {}
  BY DEF Empty
<1>3. IsStack(Empty)
  BY <1>1, <1>2, FS_EmptySet DEF IsStack
<1>4. Placed(Empty, DOMAIN Empty.frame, f, f)
  <2>1. Owners(Empty) = {Nil}
    BY <1>2 DEF Owners
  <2>2. ListPlaced(Empty, {}, f, f, Nil)
    BY <1>1 DEF ListPlaced, Count, First, Final
  <2>3. f \in [{} -> Owners(Empty)] /\ f \in [{} -> Nat \ {0}]
    OBVIOUS
  <2> HIDE DEF f
  <2> QED BY <1>2, <2>1, <2>2, <2>3 DEF Placed
<1>5. Whole(Empty, f, f)
  BY <1>3, <1>4 DEF Whole
<1> HIDE DEF f
<1>6. Runs(Empty, [k \in 1 .. 0 |-> k])
  <2> DEFINE e == [k \in 1 .. 0 |-> k]
  <2>1. e = [k \in 1 .. 0 |-> e[k]] /\ 0 \in Nat /\ \A k \in 1 .. 0 : FALSE
    OBVIOUS
  <2> HIDE DEF e
  <2>2. Runs(Empty, e)
    BY <1>1, <1>5, <2>1, ListedRuns
  <2> QED BY <2>2 DEF e
<1>7. Runs(Empty, Frames(Empty))
  BY <1>6, RunsFrames
<1> QED BY <1>1, <1>2, <1>7 DEF Going

(* The functions made first continue no environment.                       *)
LEMMA NormalIs ==
    ASSUME NEW a, Pair(a), NEW V
    PROVE  /\ IsFunc(Function("normal", a), V)
           /\ LET g == Function("normal", a) IN g.kind = "normal" /\ g.env = Nil /\ g.item = NoItem
<1> DEFINE g == Function("normal", a)
<1>1. g = [kind |-> "normal", address |-> a, cached |-> <<>>, env |-> Nil, snap |-> <<>>, turningPoint |-> 0, item |-> NoItem]
  BY DEF Function
<1> HIDE DEF g
<1>2. g.kind = "normal" /\ g.address = a /\ g.cached = <<>> /\ g.env = Nil /\ g.snap = <<>> /\ g.turningPoint = 0 /\ g.item = NoItem
      /\ g = [kind |-> g.kind, address |-> g.address, cached |-> g.cached, env |-> g.env, snap |-> g.snap,
              turningPoint |-> g.turningPoint, item |-> g.item]
  BY <1>1
<1>3. AllSnapped(g.snap, V)
  <2>1. Len(g.snap) \in Nat /\ DOMAIN g.snap = 1 .. Len(g.snap) /\ \A k \in 1 .. Len(g.snap) : FALSE
    BY <1>2
  <2> HIDE DEF g
  <2> QED BY <2>1 DEF AllSnapped
<1>4. <<>> \in Seq(V)
  OBVIOUS
<1>5. IsFunc(g, V)
  BY <1>2, <1>3, <1>4 DEF IsFunc
<1> QED BY <1>2, <1>5 DEF g

(* The initial states.                                                     *)
LEMMA InitShape == ASSUME Init PROVE Shape
<1> DEFINE V == Worths(Live)
           g == program.given
<1>1. program \in Programs /\ program.given \in Seq({"f", "g"}) /\ Len(program.given) <= program.funcs /\ program.funcs \in Nat
  BY ProgramsAssumption DEF Init
<1>2. DOMAIN program.given \subseteq 1 .. program.funcs
  BY <1>1
<1>3. DOMAIN funcs = DOMAIN g /\ held = DOMAIN g /\ status = "running"
      /\ careful \in Cares
  BY DEF Init, Cares
<1>4. ASSUME NEW f \in DOMAIN funcs PROVE IsFunc(funcs[f], V)
  <2>1. funcs[f] = Function("normal", <<program.given[f], 0>>)
    BY <1>3 DEF Init
  <2>2. Pair(<<program.given[f], 0>>)
    BY DEF Pair
  <2> HIDE DEF V
  <2> QED BY <2>1, <2>2, NormalIs
<1>5. Going(stack, V, Home) /\ stack.size = 1
  <2> DEFINE t == PushNew(Empty, New(<<"main", 0>>, 0, <<"main", 0>>, FALSE, 1))
  <2>1. Pair(<<"main", 0>>)
    BY DEF Pair
  <2> HIDE DEF V
  <2>2. Going(Empty, V, Home) /\ Empty.size = 0
    BY EmptyGoing
  <2>3. Entered(Empty, t, 1, V, Home)
    BY <2>1, <2>2, PushNewFares
  <2>4. Going(t, V, Home) /\ t.size = 0 + 1
    BY <2>2, <2>3 DEF Entered, Fares
  <2>5. stack = t
    BY DEF Init
  <2> HIDE DEF t
  <2> QED BY <2>4, <2>5
<1> HIDE DEF V, g
<1> QED BY <1>1, <1>2, <1>3, <1>4, <1>5 DEF Shape, V, g

(* Nothing has been collected.                                             *)
LEMMA InitReached == ASSUME Init PROVE Reached /\ FiniteEnvs
<1>1. kernels = <<Nil>> /\ DOMAIN kernels = {1} /\ kernels[1] = Nil
  BY DEF Init
<1>2. FiniteEnvs
  BY <1>1, FS_Singleton DEF FiniteEnvs
<1>3. Envs(stack) \subseteq {1}
  <2> DEFINE t == PushNew(Empty, New(<<"main", 0>>, 0, <<"main", 0>>, FALSE, 1))
  <2>1. Pair(<<"main", 0>>)
    BY DEF Pair
  <2>2. Going(Empty, {}, TRUE)
    BY EmptyGoing
  <2>3. Entered(Empty, t, 1, {}, TRUE)
    BY <2>1, <2>2, PushNewFares
  <2>4. Envs(Empty) = {}
    BY DEF Envs, Empty
  <2>5. Envs(t) \subseteq {1}
    BY <2>3, <2>4 DEF Entered, Fares
  <2>6. stack = t
    BY DEF Init
  <2> HIDE DEF t
  <2> QED BY <2>5, <2>6
<1>4. ASSUME NEW f \in DOMAIN funcs PROVE funcs[f].env = Nil
  <2>1. funcs[f] = Function("normal", <<program.given[f], 0>>)
    BY DEF Init
  <2>2. Pair(<<program.given[f], 0>>)
    BY DEF Pair
  <2> QED BY <2>1, <2>2, NormalIs
<1> QED BY <1>1, <1>2, <1>3, <1>4 DEF Reached

(* No continuation has been made.                                          *)
LEMMA InitLists == ASSUME Init PROVE Tracing /\ Lone
<1>1. traced.item = <<>> /\ DOMAIN traced.item = {} /\ traced.begin = NoItem /\ traced.end = NoItem
      /\ traced = [item |-> traced.item, begin |-> traced.begin, end |-> traced.end]
  BY DEF Init, EmptyList
<1>2. ASSUME NEW f \in DOMAIN funcs PROVE funcs[f].kind = "normal" /\ funcs[f].item = NoItem
  <2>1. funcs[f] = Function("normal", <<program.given[f], 0>>)
    BY DEF Init
  <2>2. Pair(<<program.given[f], 0>>)
    BY DEF Pair
  <2> QED BY <2>1, <2>2, NormalIs
<1>3. Items
  <2>1. traced.item = [i \in DOMAIN traced.item |-> traced.item[i]]
    BY <1>1
  <2>2. IsTrace(traced)
    BY <1>1, <2>1, FS_EmptySet DEF IsTrace
  <2> QED BY <1>2, <2>2 DEF Items
<1>4. Strung(traced, <<>>) /\ Backed(traced, <<>>)
  <2>1. Len(<<>>) = 0 /\ DOMAIN <<>> = 1 .. 0 /\ 1 .. 0 = {}
    OBVIOUS
  <2>2. \A k \in 1 .. Len(<<>>) : FALSE
    BY <2>1
  <2>3. {<<>>[k] : k \in 1 .. Len(<<>>)} = {}
    BY <2>2
  <2> QED BY <1>1, <2>1, <2>2, <2>3 DEF Strung, Backed
<1>5. Owns
  BY <1>1 DEF Owns
<1>6. Conts = {} /\ DOMAIN lowest = {} /\ status # "fault"
  <2>1. Conts = {}
    BY <1>2 DEF Conts
  <2>2. lowest = <<>> /\ status = "running"
    BY DEF Init
  <2> QED BY <2>1, <2>2
<1> QED BY <1>3, <1>4, <1>5, <1>6 DEF Tracing, Lone

(* The invariant holds at first.                                           *)
LEMMA InitHolds == Init => IInv /\ FiniteEnvs
  BY InitShape, InitReached, InitLists DEF IInv

(* The inductive invariant holds of whatever text the program has, with    *)
(* any number of frames, function objects, continuations and collections.  *)
THEOREM Invariant == Spec => [](IInv /\ FiniteEnvs)
<1>1. ASSUME IInv, FiniteEnvs, [Next]_vars PROVE (IInv /\ FiniteEnvs)'
  <2>1. CASE Next
    <3>1. IInv'
      BY <1>1, <2>1, NextStays
    <3>2. FiniteEnvs'
      BY <1>1, <2>1, <3>1, FiniteStays
    <3> QED BY <3>1, <3>2
  <2>2. CASE UNCHANGED vars
    <3>1. IInv'
      BY <1>1, <2>2, StutterStays
    <3>2. FiniteEnvs'
      BY <1>1, <2>2 DEF FiniteEnvs, vars
    <3> QED BY <3>1, <3>2
  <2> QED BY <1>1, <2>1, <2>2
<1> QED BY <1>1, InitHolds, PTL DEF Spec
-----------------------------------------------------------------------------
(* The invariant implies that nothing reachable was freed.                 *)
LEMMA InvReachable == ASSUME IInv, FiniteEnvs PROVE NothingReachableIsFreed
<1> SUFFICES ASSUME careful.drop, careful.met, NEW i \in ToSet(Frames(stack))
             PROVE  /\ EnvChain(stack.frame[i].env) \subseteq DOMAIN kernels
                    /\ \A f \in DOMAIN funcs : funcs[f].env \in DOMAIN kernels \cup {Nil}
                    /\ \A v \in ToSet(stack.frame[i].stack) : v[1] = "fn" => v[2] \in DOMAIN funcs
  BY DEF NothingReachableIsFreed
<1>1. i \in DOMAIN stack.frame /\ stack.frame[i].env \in Envs(stack)
  <2>1. Going(stack, Worths(Live), Home)
    BY DEF IInv, Shape
  <2>2. Listing(stack, Frames(stack))
    BY <2>1, GoingIs
  <2>3. PICK k \in DOMAIN Frames(stack) : i = Frames(stack)[k]
    BY DEF ToSet
  <2>4. i \in DOMAIN stack.frame
    BY <2>2, <2>3 DEF Listing
  <2> QED BY <2>4 DEF Envs
<1>2. /\ stack.frame[i].env \in DOMAIN kernels
      /\ \A f \in DOMAIN funcs : funcs[f].env \in DOMAIN kernels \cup {Nil}
      /\ \A k \in DOMAIN kernels : kernels[k] \in DOMAIN kernels \cup {Nil}
  <2>1. held \subseteq DOMAIN funcs
    BY DEF IInv, Shape
  <2> QED BY <1>1, <2>1 DEF IInv, Reached
<1>3. EnvChain(stack.frame[i].env) \subseteq DOMAIN kernels
  BY <1>2, EnvChainIs DEF FiniteEnvs
<1>4. stack.frame[i].stack \in Seq(Worths(DOMAIN funcs))
  <2>1. Worths(Live) = Worths(DOMAIN funcs)
    BY DEF Live
  <2> QED BY <1>1, <2>1 DEF IInv, Shape, Going, Fine
<1>5. ASSUME NEW v \in ToSet(stack.frame[i].stack), v[1] = "fn" PROVE v[2] \in DOMAIN funcs
  <2> DEFINE x == stack.frame[i].stack
  <2>1. PICK k \in DOMAIN x : v = x[k]
    BY DEF ToSet
  <2>2. v \in Worths(DOMAIN funcs)
    <3>1. x \in Seq(Worths(DOMAIN funcs))
      BY <1>4
    <3> HIDE DEF x
    <3> QED BY <2>1, <3>1
  <2> QED BY <1>5, <2>2 DEF Worths, Num, Null, Fn
<1> QED BY <1>2, <1>3, <1>5

(* It implies that a lone continuation fits.                               *)
LEMMA InvFits == ASSUME IInv PROVE LoneContinuationFits
<1> SUFFICES ASSUME program.conts = 1, careful.drop, careful.met
             PROVE  status # "fault" /\ (status = "running" => \A f \in Conts : funcs[f].turningPoint = lowest[f])
  BY DEF LoneContinuationFits
<1> QED BY DEF IInv, Lone, Single

(* The list of an owner, as it is walked.                                  *)
List(s, o) == IF o = Nil THEN Frames(s) ELSE Generators(s, o)

(* It is the list as written.                                              *)
LEMMA ListIs ==
    ASSUME NEW s, NEW own, NEW pos, Whole(s, own, pos), NEW o \in Owners(s)
    PROVE  Ordered(s, own, pos, o, List(s, o))
<1>1. PICK q : Ordered(s, own, pos, o, q)
  BY AnOrder
<1>2. List(s, o) = Walk(s, First(s, o))
  BY DEF List, Frames, Generators, First
<1> QED BY <1>1, <1>2, WalkIs

(* The links back agree with the walk.                                     *)
LEMMA LinkedIs ==
    ASSUME NEW own, NEW pos, Whole(stack, own, pos), NEW o \in Owners(stack)
    PROVE  Linked(List(stack, o), First(stack, o), Final(stack, o)) /\ Len(List(stack, o)) = Count(stack, o)
<1> DEFINE q == List(stack, o)
           D == DOMAIN stack.frame
<1>1. Ordered(stack, own, pos, o, q)
  BY ListIs
<1> HIDE DEF q
<1>2. /\ Len(q) \in Nat /\ Len(q) = Count(stack, o) /\ q \in Seq(D)
      /\ First(stack, o) = (IF Len(q) = 0 THEN Nil ELSE q[1])
      /\ Final(stack, o) = (IF Len(q) = 0 THEN Nil ELSE q[Len(q)])
      /\ \A k \in 1 .. Len(q) : stack.frame[q[k]].prev = (IF k = 1 THEN Nil ELSE q[k - 1])
  BY <1>1, Neighbours DEF Ordered
<1> HIDE DEF D
<1>3. DOMAIN q = 1 .. Len(q) /\ (q = <<>> <=> Len(q) = 0) /\ (Len(q) # 0 => Head(q) = q[1] /\ Last(q) = q[Len(q)])
  BY <1>2 DEF Last
<1>4. Linked(q, First(stack, o), Final(stack, o))
  BY <1>2, <1>3 DEF Linked
<1> QED BY <1>2, <1>4 DEF q

(* The invariant implies that every frame is in one place.                 *)
LEMMA InvPlaces == ASSUME IInv PROVE FramesInOnePlace
<1> DEFINE list(o) == IF o = Nil THEN Frames(stack) ELSE Generators(stack, o)
           places == UNION {{o} \X DOMAIN list(o) : o \in DOMAIN stack.frame \cup {Nil}}
           at(p) == list(p[1])[p[2]]
<1>1. PICK own, pos : Whole(stack, own, pos)
  BY DEF IInv, Shape, Going, Runs
<1>2. /\ DOMAIN stack.frame \subseteq Nat \ {0} /\ Owners(stack) = DOMAIN stack.frame \cup {Nil}
      /\ own \in [DOMAIN stack.frame -> Owners(stack)]
  BY <1>1 DEF Whole, IsStack, Placed, Owners
<1>3. ASSUME NEW o \in Owners(stack)
      PROVE  /\ Len(list(o)) \in Nat /\ DOMAIN list(o) = 1 .. Len(list(o))
             /\ \A k \in 1 .. Len(list(o)) : list(o)[k] \in DOMAIN stack.frame /\ own[list(o)[k]] = o /\ pos[list(o)[k]] = k
             /\ \A i \in DOMAIN stack.frame : own[i] = o => pos[i] \in 1 .. Len(list(o)) /\ list(o)[pos[i]] = i
  <2> DEFINE q == List(stack, o)
  <2>1. Ordered(stack, own, pos, o, q)
    BY <1>1, ListIs
  <2>2. q = list(o)
    BY DEF List
  <2> HIDE DEF q, list
  <2>3. /\ \A k \in 1 .. Len(q) : q[k] \in DOMAIN stack.frame
        /\ \A i \in DOMAIN stack.frame : own[i] = o => pos[i] \in 1 .. Len(q) /\ q[pos[i]] = i
    BY <1>1, <2>1, Neighbours
  <2>4. q \in Seq(DOMAIN stack.frame) /\ \A k \in 1 .. Len(q) : own[q[k]] = o /\ pos[q[k]] = k
    BY <2>1 DEF Ordered
  <2>5. Len(q) \in Nat /\ DOMAIN q = 1 .. Len(q)
    BY <2>4
  <2> QED BY <2>2, <2>3, <2>4, <2>5
<1>4. ASSUME NEW p \in places
      PROVE  /\ p[1] \in Owners(stack) /\ p[2] \in 1 .. Len(list(p[1])) /\ p = <<p[1], p[2]>>
             /\ at(p) \in DOMAIN stack.frame /\ own[at(p)] = p[1] /\ pos[at(p)] = p[2]
  <2>1. PICK o \in Owners(stack) : p \in {o} \X DOMAIN list(o)
    BY <1>2
  <2> HIDE DEF list
  <2>2. p[1] = o /\ p[2] \in DOMAIN list(o) /\ p = <<p[1], p[2]>>
    BY <2>1
  <2>3. p[2] \in 1 .. Len(list(o)) /\ list(o)[p[2]] \in DOMAIN stack.frame /\ own[list(o)[p[2]]] = o
        /\ pos[list(o)[p[2]]] = p[2]
    BY <1>3, <2>2
  <2> QED BY <2>2, <2>3
<1>5. ASSUME NEW i \in DOMAIN stack.frame PROVE \E p \in places : at(p) = i
  <2> DEFINE p == <<own[i], pos[i]>>
  <2>1. own[i] \in Owners(stack)
    BY <1>2
  <2> HIDE DEF list
  <2>2. pos[i] \in DOMAIN list(own[i]) /\ list(own[i])[pos[i]] = i
    BY <1>3, <2>1
  <2>3. p \in {own[i]} \X DOMAIN list(own[i])
    BY <2>2
  <2>4. p \in places
    BY <1>2, <2>1, <2>3
  <2> QED BY <2>2, <2>4
<1>6. {at(p) : p \in places} = DOMAIN stack.frame
  <2> HIDE DEF places, at
  <2> QED BY <1>4, <1>5
<1>7. ASSUME NEW p \in places, NEW q \in places, at(p) = at(q) PROVE p = q
  <2> HIDE DEF places, at, list
  <2>1. /\ p = <<p[1], p[2]>> /\ own[at(p)] = p[1] /\ pos[at(p)] = p[2]
        /\ q = <<q[1], q[2]>> /\ own[at(q)] = q[1] /\ pos[at(q)] = q[2]
    BY <1>4
  <2> QED BY <1>7, <2>1
<1>8. Linked(Frames(stack), stack.bottom, stack.top) /\ Len(Frames(stack)) = stack.size
  <2>1. Nil \in Owners(stack)
    BY <1>2
  <2> QED BY <1>1, <2>1, LinkedIs DEF List, First, Final, Count
<1>9. ASSUME NEW i \in DOMAIN stack.frame
      PROVE  /\ Linked(Generators(stack, i), stack.frame[i].gBegin, stack.frame[i].gEnd)
             /\ Len(Generators(stack, i)) = stack.frame[i].gSize
  <2>1. i \in Owners(stack) /\ i # Nil
    BY <1>2 DEF Nil
  <2> QED BY <1>1, <2>1, LinkedIs DEF List, First, Final, Count
<1>10. (\A p, q \in places : at(p) = at(q) => p = q)
  BY <1>7
<1> HIDE DEF places, at
<1> QED BY <1>6, <1>8, <1>9, <1>10 DEF FramesInOnePlace, places, at

(* It implies the types.                                                   *)
LEMMA InvType == ASSUME IInv PROVE TypeOK
<1> DEFINE D == DOMAIN stack.frame
<1>1. PICK own, pos : Whole(stack, own, pos)
  BY DEF IInv, Shape, Going, Runs
<1>2. /\ D \subseteq Nat \ {0} /\ Owners(stack) = D \cup {Nil} /\ own \in [D -> Owners(stack)]
      /\ \A o \in Owners(stack) : ListPlaced(stack, D, own, pos, o)
      /\ \A i \in D : FramePlaced(stack, D, own, pos, i)
  BY <1>1 DEF Whole, IsStack, Placed, Owners
<1>3. stack.top \in D \cup {Nil}
  <2>1. ListPlaced(stack, D, own, pos, Nil)
    BY <1>2
  <2> QED BY <2>1 DEF ListPlaced, Final
<1>4. ASSUME NEW i \in D PROVE {stack.frame[i].next, stack.frame[i].prev, stack.frame[i].gBegin, stack.frame[i].gEnd} \subseteq D \cup {Nil}
  <2>1. ListPlaced(stack, D, own, pos, i) /\ FramePlaced(stack, D, own, pos, i) /\ i # Nil
    BY <1>2 DEF Nil
  <2> HIDE DEF D
  <2>2. stack.frame[i].next \in D \cup {Nil} /\ stack.frame[i].prev \in D \cup {Nil}
    BY <2>1 DEF FramePlaced
  <2>3. stack.frame[i].gBegin \in D \cup {Nil} /\ stack.frame[i].gEnd \in D \cup {Nil}
    BY <2>1 DEF ListPlaced, First, Final
  <2> QED BY <2>2, <2>3
<1>5. ASSUME NEW i \in D PROVE stack.frame[i].stack \in Seq({Num(0), Num(1), Null} \cup {Fn(g) : g \in 1 .. program.funcs})
  <2>1. DOMAIN funcs \subseteq 1 .. program.funcs
    BY DEF IInv, Shape
  <2>2. Live \subseteq 1 .. program.funcs
    BY <2>1 DEF Live
  <2>3. Worths(Live) \subseteq Worths(1 .. program.funcs)
    BY <2>2, WorthsLess
  <2>4. Seq(Worths(Live)) \subseteq Seq(Worths(1 .. program.funcs))
    BY <2>3
  <2>5. stack.frame[i].stack \in Seq(Worths(1 .. program.funcs))
    BY <2>4 DEF IInv, Shape, Going, Fine
  <2> QED BY <2>5 DEF Worths
<1>6. /\ \A f \in DOMAIN funcs : funcs[f].item \in DOMAIN traced.item \cup {NoItem}
      /\ Traced(traced) \subseteq DOMAIN traced.item
  BY DEF IInv, Tracing, Items, Traced
<1>7. held \subseteq DOMAIN funcs /\ status \in {"running", "error", "fault", "ended"}
  BY DEF IInv, Shape
<1> QED BY <1>3, <1>4, <1>5, <1>6, <1>7 DEF TypeOK

(* It implies that the list and the continuations agree.                   *)
LEMMA InvTraced == ASSUME IInv PROVE TracedAgree
<1> SUFFICES ASSUME careful.removed < 2
             PROVE  /\ Sound(traced)
                    /\ Traced(traced) = {funcs[f].item : f \in DOMAIN funcs} \ {NoItem}
                    /\ \A f \in DOMAIN funcs : funcs[f].item # NoItem => Owner(traced, funcs[f].item) = f
  BY DEF TracedAgree
<1>1. Sound(traced) /\ Traced(traced) = DOMAIN traced.item
  BY Followed DEF IInv
<1>2. /\ \A i \in DOMAIN traced.item : i # NoItem
      /\ \A f \in DOMAIN funcs : funcs[f].item \in DOMAIN traced.item \cup {NoItem}
      /\ \A f, g \in DOMAIN funcs : funcs[f].item = funcs[g].item /\ funcs[f].item # NoItem => f = g
  BY DEF IInv, Tracing, Items, IsTrace, NoItem
<1>3. \A i \in DOMAIN traced.item : Owner(traced, i) \in DOMAIN funcs /\ funcs[Owner(traced, i)].item = i
  BY DEF IInv, Tracing, Owns
<1>4. DOMAIN traced.item = {funcs[f].item : f \in DOMAIN funcs} \ {NoItem}
  <2>1. ASSUME NEW i \in DOMAIN traced.item PROVE i \in {funcs[f].item : f \in DOMAIN funcs} \ {NoItem}
    BY <1>2, <1>3
  <2>2. ASSUME NEW f \in DOMAIN funcs, funcs[f].item # NoItem PROVE funcs[f].item \in DOMAIN traced.item
    BY <1>2, <2>2
  <2> QED BY <2>1, <2>2
<1>5. ASSUME NEW f \in DOMAIN funcs, funcs[f].item # NoItem PROVE Owner(traced, funcs[f].item) = f
  <2>1. funcs[f].item \in DOMAIN traced.item
    BY <1>2, <1>5
  <2> QED BY <1>2, <1>3, <1>5, <2>1
<1> QED BY <1>1, <1>4, <1>5

(* It implies that frames are in their function.                           *)
LEMMA InvHome == ASSUME IInv PROVE FramesKeepTheirFunction
<1> SUFFICES ASSUME careful.plain, program.conts < 2, NEW i \in ToSet(Frames(stack))
             PROVE  stack.frame[i].pc[1] = stack.frame[i].start[1]
  BY DEF FramesKeepTheirFunction
<1>1. Going(stack, Worths(Live), Home) /\ Home
  BY DEF IInv, Shape, Home
<1>2. Listing(stack, Frames(stack))
  BY <1>1, GoingIs
<1>3. PICK k \in DOMAIN Frames(stack) : i = Frames(stack)[k]
  BY DEF ToSet
<1>4. i \in DOMAIN stack.frame
  BY <1>2, <1>3 DEF Listing
<1> QED BY <1>1, <1>4 DEF Going, Fine

(* All of Consistent, then.                                                *)
LEMMA InvConsistent == ASSUME IInv PROVE Consistent
  BY InvType, InvPlaces, InvTraced, InvHome DEF Consistent
-----------------------------------------------------------------------------
(* Only the call of a continuation says CONT.                              *)
LEMMA OnlyContinuations ==
    ASSUME Next, instr'[1] = "CONT"
    PROVE  \E op \in {"CALL", "TAILCALL"}, f \in held, n \in program.args : CallContinuation(op, f, n)
<1>1. ~ ((\E v \in Values : PUSH(v)) \/ POP \/ RETURNTO \/ (\E n \in 1 .. program.height : LIFT(n)) \/ TRAPSET \/ TRAP)
  BY DEF PUSH, POP, RETURNTO, LIFT, TRAPSET, TRAP
<1>2. ~ ((\E f \in held, v \in Values : PROMC(f, v)) \/ Fails \/ Collect \/ (\E f \in held : Discard(f)))
  BY DEF PROMC, Fails, Collect, Discard
<1>3. ~ (FUNCMK \/ \E a \in Addresses : NFUNCMK(a) \/ LAMBDAMK(a) \/ PROMMK(a) \/ CONTMK(a))
  BY DEF FUNCMK, NFUNCMK, LAMBDAMK, PROMMK, CONTMK, Make
<1>4. ~ (RETURN \/ YIELD \/ RETNONE)
  BY DEF RETURN, YIELD, RETNONE, Leaves
<1>5. ASSUME NEW op \in {"CALL", "TAILCALL"}, NEW f \in held
      PROVE  /\ \A v \in Answers(f) : ~ CallAnswers(op, f, v)
             /\ \A n \in program.args : ~ CallFunction(op, f, n)
  <2>1. ASSUME NEW v, CallAnswers(op, f, v) PROVE FALSE
    <3>1. instr' = <<"ANSWER", v>>
      BY <2>1 DEF CallAnswers
    <3> QED BY <3>1
  <2>2. ASSUME NEW n, CallFunction(op, f, n) PROVE FALSE
    <3>1. instr' = <<op, funcs[f].address, n>>
      BY <2>2 DEF CallFunction
    <3>2. instr'[1] = op
      BY <3>1
    <3> QED BY <3>2
  <2> QED BY <2>1, <2>2
<1> QED BY <1>1, <1>2, <1>3, <1>4, <1>5 DEF Next

(* The frames of a snapshot, wound back.                                   *)
LEMMA WindsBack ==
    ASSUME IInv, NEW op, NEW f \in held, NEW n, CallContinuation(op, f, n), instr'[1] = "CONT", careful'.plain
    PROVE  /\ instr' = <<"CONT", f>>
           /\ Len(Frames(stack')) = Len(funcs[f].snap) + 1
           /\ Wound(funcs[f].snap, Preserved(f), stack') /\ AllSnapped(funcs[f].snap, Worths(Live))
<1> DEFINE V == Worths(Live)
           s == Finish(op, GoBack(f, n))
           N == Len(funcs[f].snap)
<1>1. status = "running" /\ funcs[f].kind = "cont"
  BY DEF CallContinuation, Executes
<1>2. ~ (Preserved(f) > stack.size)
  BY DEF CallContinuation, Fault
<1>3. stack' = s /\ instr' = <<"CONT", f>> /\ careful' = [careful EXCEPT !.plain = @ /\ ~TailOp(op)]
  BY <1>2 DEF CallContinuation, Becomes
<1>4. ~ TailOp(op)
  BY <1>1, <1>3, RunningIs DEF Cares
<1>5. Going(stack, V, FALSE) /\ stack.size # 0 /\ stack.size \in Nat /\ IsFunc(funcs[f], V)
  <2>1. Going(stack, V, Home) /\ stack.size # 0 /\ stack.size \in Nat /\ IsFunc(funcs[f], V)
    BY <1>1, RunningIs
  <2>2. FALSE => Home
    OBVIOUS
  <2> HIDE DEF V
  <2> QED BY <2>1, <2>2, GoingLess
<1>6. Preserved(f) \in Nat /\ Preserved(f) <= stack.size /\ N \in Nat /\ AllSnapped(funcs[f].snap, V)
  <2> HIDE DEF V
  <2>1. Preserved(f) \in Nat /\ N \in Nat
    BY <1>5, PreservedIs
  <2> QED BY <1>2, <1>5, <2>1 DEF IsFunc
<1>7. Wound(funcs[f].snap, Preserved(f), s) /\ \E X : Fares(stack, s, Preserved(f), N + 1, X, V, FALSE)
  <2> HIDE DEF V, s, N
  <2>1. LET M == Len(funcs[f].snap)
            t == Finish(op, GoBack(f, n))
        IN /\ \E X : Fares(stack, t, IF TailOp(op) THEN 0 ELSE Preserved(f),
                           IF TailOp(op) THEN M ELSE M + 1, X, V, FALSE)
           /\ ~ TailOp(op) => Wound(funcs[f].snap, Preserved(f), t)
    BY <1>1, <1>5, <1>6, GoBackFares
  <2> QED BY <1>4, <2>1 DEF s, N
<1>8. Len(Frames(s)) = N + 1
  <2> HIDE DEF V, s, N
  <2>1. Going(s, V, FALSE) /\ s.size = N + 1
    BY <1>7, FaresGoing
  <2> QED BY <2>1, GoingIs
<1> QED BY <1>3, <1>6, <1>7, <1>8

(* A step that calls a continuation winds the stack back.                  *)
LEMMA StepWindsBack ==
    ASSUME IInv, Next, instr'[1] = "CONT", careful'.plain
    PROVE  LET f == instr'[2]
               order == Frames(stack')
           IN /\ Len(order) = Len(funcs[f].snap) + 1
              /\ \A k \in DOMAIN funcs[f].snap :
                   LET frame == stack'.frame[order[k]]
                       snap == funcs[f].snap[k]
                   IN /\ \/ frame.pc = snap.pc
                         \/ k = 1 /\ Preserved(f) = 1
                      /\ k <= Preserved(f) =>
                           /\ Len(frame.stack) = Len(snap.stack)
                           /\ snap.stack # <<>> => Last(frame.stack) = Last(snap.stack)
<1>1. PICK op \in {"CALL", "TAILCALL"}, f \in held, n \in program.args : CallContinuation(op, f, n)
  BY OnlyContinuations
<1>2. /\ instr' = <<"CONT", f>> /\ Len(Frames(stack')) = Len(funcs[f].snap) + 1
      /\ Wound(funcs[f].snap, Preserved(f), stack') /\ AllSnapped(funcs[f].snap, Worths(Live))
  BY <1>1, WindsBack
<1>3. instr'[2] = f /\ DOMAIN funcs[f].snap = 1 .. Len(funcs[f].snap)
  BY <1>2 DEF AllSnapped
<1>4. ASSUME NEW k \in 1 .. Len(funcs[f].snap)
      PROVE  LET frame == stack'.frame[Frames(stack')[k]]
                 snap == funcs[f].snap[k]
             IN /\ frame.pc = snap.pc \/ (k = 1 /\ Preserved(f) = 1)
                /\ k <= Preserved(f) => frame.stack = snap.stack
  BY <1>2 DEF Wound
<1> QED BY <1>2, <1>3, <1>4
-----------------------------------------------------------------------------
(* Whatever is called, suspended, resumed, merged, crushed and wound back, *)
(* every frame is on the running stack or in one list of generators, both  *)
(* kinds of list are whole in both directions and counted right            *)
(* (vm_infrastructure.c); the list of traced continuations holds those     *)
(* that say so until two have been removed from it (vm_env.c); and a frame *)
(* executes the function it was entered in, as long as the program is      *)
(* plain.                                                                  *)
THEOREM AlwaysConsistent == Spec => []Consistent
<1>1. IInv /\ FiniteEnvs => Consistent
  BY InvConsistent
<1> QED BY <1>1, Invariant, PTL

(* A collection never frees an environment or a function object that a     *)
(* frame on the stack can reach, as long as no function object lets go of  *)
(* an environment that is continued, and no collection finds generators    *)
(* kept by a frame that is itself suspended (the markers of vm_gc.c,       *)
(* vm_object_func.c and vm_object_env_ent.c).                              *)
THEOREM NothingFreedEarly == Spec => []NothingReachableIsFreed
<1>1. IInv /\ FiniteEnvs => NothingReachableIsFreed
  BY InvReachable
<1> QED BY <1>1, Invariant, PTL

(* With one continuation at a time, and under the same two conditions, the *)
(* program never runs off the stack when it goes back, and the turning     *)
(* point is the lowest height the stack has had (vm_cpu_control_cont.c,    *)
(* continuation_list_update).                                              *)
THEOREM AloneItFits == Spec => []LoneContinuationFits
<1>1. IInv /\ FiniteEnvs => LoneContinuationFits
  BY InvFits
<1> QED BY <1>1, Invariant, PTL

(* A continuation that is called brings the stack back to its snapshot,    *)
(* with the function of the continuation on top: every frame to its place  *)
(* in the text, and those that were never left to the height and the top   *)
(* of their computing stack, with any number of continuations (OP_CALL on  *)
(* a continuation, stack_restore).                                         *)
THEOREM WoundBack == Spec => ContinuationWindsBack
<1> DEFINE A == instr'[1] = "CONT" /\ careful'.plain =>
                  LET f == instr'[2]
                      order == Frames(stack')
                  IN /\ Len(order) = Len(funcs[f].snap) + 1
                     /\ \A k \in DOMAIN funcs[f].snap :
                          LET frame == stack'.frame[order[k]]
                              snap == funcs[f].snap[k]
                          IN /\ \/ frame.pc = snap.pc
                                \/ k = 1 /\ Preserved(f) = 1
                             /\ k <= Preserved(f) =>
                                  /\ Len(frame.stack) = Len(snap.stack)
                                  /\ snap.stack # <<>> => Last(frame.stack) = Last(snap.stack)
<1>1. IInv /\ [Next]_vars => [A]_vars
  <2>1. ASSUME IInv, Next PROVE A
    BY <2>1, StepWindsBack
  <2> HIDE DEF A
  <2> QED BY <2>1
<1>2. Spec => [][A]_vars
  BY <1>1, Invariant, PTL DEF Spec
<1> QED BY <1>2 DEF ContinuationWindsBack
=============================================================================
