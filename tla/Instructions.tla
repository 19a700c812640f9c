------------------------------ MODULE Instructions ------------------------------
(***************************************************************************)
(* The instructions on data: those on composite data, with the stack left  *)
(* to CompositeData's operands, and those on the computing stack itself    *)
(* and on scalars (vm/vm_cpu_alu.c, vm/vm_cpu.c, vm/vm_object.c).  A       *)
(* program is of one of the two sorts.  One of the second sort uses some   *)
(* literals, so much of the stack, some operations, and words of some      *)
(* width.                                                                  *)
(***************************************************************************)
EXTENDS CompositeData
CONSTANTS One, Epsilon, Spelling(_),   (* see Scalars *)
          MaxStr,                      (* bound: bytes of a string *)
          MaxFloat                     (* bound: size of a float, in 1/One *)
ASSUME FloatAssumption == One \in Nat \ {0} /\ Epsilon \in 1..(One - 1)
VARIABLES stack,
          ran,          (* the last operation of the stack, its operands from *)
                        (* the top, and what it computed                      *)
          fate          (* as status, of a program of the second sort *)
machine == <<vars, stack, ran, fate>>

C == INSTANCE ComputingStack
S == INSTANCE Scalars
w == program.width
Top(n) == C!Nth(stack, n)
At(n) == stack.objs[Top(n)].val
Tops(n) == SubSeq(C!Values(stack), 1, n)
IsInt(v) == S!Type(v) = "int"

MachineInit == /\ Init /\ stack = C!EmptyStack
               /\ ran = [op |-> "none", operands |-> <<>>, out |-> <<>>] /\ fate = "running"

Runs(op) == op \in program.ops
Did(op, operands, computed) == ran' = [op |-> op, operands |-> operands, out |-> computed]
Stack(s) == stack' = s /\ s.size <= program.depth /\ fate' = "running"
(* An error is raised; the machine traps. *)
Ends(how) == fate' = how /\ UNCHANGED stack
-----------------------------------------------------------------------------
PUSH == \E v \in program.literals :
    Runs("PUSH") /\ Did("PUSH", <<>>, <<v>>) /\ Stack(C!Push(stack, v))

DUP == /\ Runs("DUP") /\ Did("DUP", <<>>, <<>>)
       /\ IF stack.size = 0 THEN Ends("error") ELSE Stack(C!Push(stack, At(1)))
DROP == /\ Runs("DROP") /\ Did("DROP", <<>>, <<>>)
        /\ IF stack.size = 0 THEN Ends("error") ELSE Stack(C!Pop(stack))

(* The count is on the top.  What happens to the n objects under it: PICK  *)
(* and INSERTCP write through the next of the nth, and INSERT never finds  *)
(* its place: top still is the object it took out, whose prev is NULL.     *)
Under == C!Pop(stack)
Moved(op, n) ==
    CASE op = "PICK" -> IF C!NothingAbove(Under, n) THEN Ends("fault") ELSE Stack(C!Pick(Under, n))
      [] op = "PICKCP" -> Stack(C!PickCopy(Under, n))
      [] op = "INSERT" -> Ends("error")
      [] op = "INSERTCP" -> IF C!NothingAbove(Under, n) THEN Ends("fault")
                            ELSE Stack(C!InsertCopy(Under, n))
Shuffles == {"PICK", "PICKCP", "INSERT", "INSERTCP"}
SHUFFLE == \E op \in Shuffles :
    /\ Runs(op) /\ Did(op, <<>>, <<>>)
    /\ IF stack.size = 0 THEN Ends("fault")
       ELSE IF ~IsInt(At(1)) THEN Ends("error")
       ELSE LET n == S!Val(At(1))
            IN IF n \in {0, 1} THEN Stack(Under)
               ELSE IF n \notin 2..Under.size THEN Ends("error")
               ELSE Moved(op, n)

REVERSE == \E op \in {"REVERSE", "REVERSEP"} :
    /\ Runs(op) /\ Did(op, <<>>, <<>>)
    /\ IF stack.size = 0 \/ ~IsInt(At(1)) THEN Ends("error")
       ELSE LET n == S!Val(At(1))
            IN IF n \notin 0..Under.size THEN Ends("error")
               ELSE IF op = "REVERSE" THEN Stack(C!ReverseTop(Under, n))
               ELSE Stack(C!Push(C!ReverseTop(Under, n), At(1)))

(* An operation on one or two operands, with its outcomes for those on the *)
(* stack: too few are an error, and what it gives takes their place.       *)
Bounded(v) == /\ S!Type(v) \in {"str", "symbol"} => Len(S!Val(v)) <= MaxStr
              /\ S!Type(v) = "float" => S!Size(S!Val(v)) <= MaxFloat
Under2 == C!Pop(Under)
Operate(op, n, outcomes) ==
    /\ Runs(op)
    /\ IF stack.size < n THEN Did(op, <<>>, <<>>) /\ Ends("error")
       ELSE \E o \in outcomes :
               IF o[1] = "ok" THEN /\ Bounded(o[2]) /\ Did(op, Tops(n), <<o[2]>>)
                                   /\ Stack(C!Push(IF n = 1 THEN Under ELSE Under2, o[2]))
               ELSE Did(op, Tops(n), <<>>) /\ Ends(o[1])
BINARY == \E op \in S!ArithmeticOps \cup S!LogicOps \cup S!Equality \cup S!Order :
    Operate(op, 2, S!BinaryOperate(w, op, At(2), At(1)))
UNARY == \E op \in {"NEG", "NOTA", "NOTL"} :
    Operate(op, 1, S!UnaryOperate(w, op, At(1)))
CONVERT == \E t \in program.types : Operate("CONVERT", 1, S!Convert(w, At(1), t))
TYPE == Operate("TYPE", 1, S!Gives(S!TypeIs(S!Type(At(1)))))
TYPEP == \E t \in program.types :
    Operate("TYPEP", 1, S!Gives(S!Truth(S!Type(At(1)) = t)))
(* Of scalars, only a string has a size. *)
STRSIZE == Operate("SIZE", 1,
    IF S!Type(At(1)) = "str" THEN S!Gives(S!Integer(Len(S!Val(At(1))))) ELSE S!Refused)
TYPEUP == /\ Runs("TYPEUP")
          /\ IF stack.size < 2 THEN Did("TYPEUP", <<>>, <<>>) /\ Ends("error")
             ELSE LET both == S!TypeUpgrade(At(2), At(1))
                  IN /\ \A i \in 1..2 : Bounded(both[i])
                     /\ Did("TYPEUP", Tops(2), Reverse(both))
                     /\ Stack(C!Push(C!Push(Under2, both[1]), both[2]))

(* A jump takes a truth value off the top, if it is conditional.  Where it *)
(* goes, from pc, is its answer.                                           *)
Conditional == {"JMPC", "JMPCR"}
Goal(op, pc, operand) ==
    IF op \in Conditional /\ ~S!Val(At(1)) THEN (pc + 1) % 2^w
    ELSE IF op \in {"JMPR", "JMPCR"} THEN S!JumpTo(w, pc, operand) ELSE operand
JMP == \E op \in {"JMP", "JMPR", "JMPC", "JMPCR"} : Runs(op) /\ \E pc, operand \in 0..(2^w - 1) :
    IF op \in Conditional /\ (stack.size = 0 \/ S!Type(At(1)) # "bool")
    THEN Did(op, <<pc, operand>>, <<>>) /\ Ends("error")
    ELSE /\ Did(op, <<pc, operand>>, <<Goal(op, pc, operand)>>)
         /\ Stack(IF op \in Conditional THEN C!Pop(stack) ELSE stack)

(* What a careful program does without, of these: PICK, which leaves the   *)
(* old top without its link upwards, shuffling an empty stack, and         *)
(* dividing the least integer by -1.                                       *)
Dangerous ==
    \/ ran'.op = "PICK" /\ stack.size > 0 /\ At(1) \notin {S!Integer(0), S!Integer(1)}
    \/ ran'.op \in Shuffles /\ stack.size = 0
    \/ /\ ran'.op \in {"DIV", "MOD"} /\ stack.size >= 2
       /\ IsInt(At(1)) /\ S!Val(At(1)) = -1 /\ IsInt(At(2)) /\ S!Val(At(2)) = S!Least(w)

StackStep ==
    /\ fate = "running"
    /\ \/ PUSH \/ DUP \/ DROP \/ SHUFFLE \/ REVERSE \/ BINARY \/ UNARY \/ CONVERT
       \/ TYPE \/ TYPEP \/ STRSIZE \/ TYPEUP \/ JMP
    /\ careful' = (careful /\ ~Dangerous)
    /\ UNCHANGED <<heap, instr, out, status, program>>
DataStep == Next /\ UNCHANGED <<stack, ran, fate>>
MachineNext == \/ program.kinds = {} /\ StackStep
               \/ program.kinds # {} /\ DataStep
MachineSpec == MachineInit /\ [][MachineNext]_machine
-----------------------------------------------------------------------------
(* The collector marks, a copied frame takes over and the end of a frame   *)
(* releases what next leads to from the bottom: for a careful program that *)
(* is the whole stack, the same objects that prev leads to from the top,   *)
(* whatever was copied, inserted or reversed (gc/vm_gc.c:126,              *)
(* vm/vm_infrastructure.c:291).                                            *)
CollectorSeesStack ==
    /\ Len(C!Downwards(stack)) = stack.size
    /\ careful => C!Upwards(stack) = Reverse(C!Downwards(stack))

(* Structures and stack read the same from both ends, keep to their blocks *)
(* and have each key once.                                                 *)
Consistent == TypeOK /\ ChainsAgree /\ ArrayFits /\ KeysOnce /\ CollectorSeesStack

(* A program that never cuts a list, an array or a hash, never sets a new  *)
(* key with REFSET, never picks, never shuffles an empty stack and never   *)
(* divides the least integer by -1 is not led into undefined behaviour by  *)
(* any sequence of the other instructions, shared handles included         *)
(* (vm/vm_cpu_composite_ds.c:33, vm/vm_cpu_alu.c:157).                     *)
CarefulProgramsSafe == status = "fault" \/ fate = "fault" => ~careful

(* Integers: a result has the low bits of the true one; a quotient and a   *)
(* remainder divide towards zero; and, or and exclusive or fit together as *)
(* carries and sums do (vm/vm_object_native.c:143).                        *)
Congruent(a, b) == (a - b) % 2^w = 0
TrueResult(op, l, r, v) ==
    CASE op = "ADD" -> Congruent(v, l + r)
      [] op = "SUB" -> Congruent(v, l - r)
      [] op = "MUL" -> Congruent(v, l * r)
      [] op = "DIV" -> S!Size(v * r) <= S!Size(l) /\ S!Size(l - v * r) < S!Size(r)
      [] op = "MOD" -> /\ S!Size(v) < S!Size(r) /\ (v = 0 \/ (v < 0) = (l < 0))
                       /\ (S!Size(l) - S!Size(v)) % S!Size(r) = 0
      [] op = "LSHIFT" -> Congruent(v, l * 2^(r % w))
      [] op = "RSHIFT" -> l - v * 2^(r % w) \in 0..(2^(r % w) - 1)
      [] op = "ANDA" -> l + r = S!Bitwise(w, "XORA", l, r) + 2 * v
      [] op = "ORA" -> l + r = v + S!Bitwise(w, "ANDA", l, r)
      [] op = "XORA" -> v = S!Bitwise(w, "ORA", l, r) - S!Bitwise(w, "ANDA", l, r)
ArithmeticAgrees == [][
    (ran'.op \in S!ArithmeticOps /\ fate' = "running" /\ IsInt(ran'.operands[1]) /\ IsInt(ran'.operands[2])) =>
        LET l == S!Val(ran'.operands[2]) r == S!Val(ran'.operands[1]) v == S!Val(ran'.out[1])
        IN v = S!Signed(w, v) /\ TrueResult(ran'.op, l, r, v)]_machine

(* Of two values on the stack: EQ and NE never both answer yes, EQ answers *)
(* the same the other way round where it answers at all, and finds equal   *)
(* what a hash takes for one key, nan and inf apart                        *)
(* (vm/vm_object.c:1000).                                                  *)
Yes == S!Gives(S!Truth(TRUE))
Eq(a, b) == S!BinaryOperate(w, "EQ", a, b)
Ne(a, b) == S!BinaryOperate(w, "NE", a, b)
EqualityAgrees == stack.size >= 2 =>
    LET a == At(2) b == At(1)
    IN Eq(a, b) # S!Refused =>
          /\ (Eq(a, b) = Yes) = (Ne(a, b) # Yes)
          /\ Eq(b, a) # S!Refused => Eq(a, b) = Eq(b, a)
          /\ S!Type(a) \notin {"nan", "inf"} => (Eq(a, b) = Yes) = S!KeysEq(a, b)

(* An integer written as a string is read back as it was, and so are its   *)
(* character, a string's symbol and a float made of an integer             *)
(* (vm/vm_object_str.c:234, vm/vm_object_native.c:348).                    *)
BackAndForth(v, t) == \A o \in S!Convert(w, v, t) :
    o[1] = "ok" => S!Convert(w, o[2], S!Type(v)) = S!Gives(v)
ConversionsReturn == stack.size >= 1 =>
    LET v == At(1)
    IN /\ IsInt(v) => \A t \in {"str", "char", "float"} : BackAndForth(v, t)
       /\ S!Type(v) = "str" => BackAndForth(v, "symbol")

(* Scalars are equal, are converted and are compared as keys by rules of   *)
(* three places, which agree.                                              *)
ScalarsAgree == EqualityAgrees /\ ConversionsReturn
=============================================================================
