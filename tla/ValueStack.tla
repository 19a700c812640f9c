------------------------------ MODULE ValueStack ------------------------------
(***************************************************************************)
(* What the instructions on the computing stack promise a program: the     *)
(* stack is a sequence of values, its top first; an instruction takes its  *)
(* operands from the top, and what it answers is pushed.  ran is the       *)
(* operation that was executed, with its operands and what it computed.    *)
(* A jump answers where it goes.                                           *)
(***************************************************************************)
EXTENDS Integers, SequencesExt
VARIABLES values, ran, fate,
          width     (* bits of a word; never changes *)
vars == <<values, ran, fate>>

Init == values = <<>> /\ ran.op = "none" /\ fate = "running"

Under(n) == SubSeq(values, n + 1, Len(values))
Becomes(s) == values' = s /\ fate' = "running"
(* The stack without the count on its top, and the nth of it. *)
Rest == Under(1)
Moves(op, n) ==
    \/ op = "PICK" /\ Becomes(<<Rest[n]>> \o RemoveAt(Rest, n))
    \/ op = "PICKCP" /\ Becomes(<<Rest[n]>> \o Rest)
    \/ op = "INSERT" /\ Becomes(InsertAt(Tail(Rest), n, Rest[1]))
    \/ op = "INSERTCP" /\ Becomes(InsertAt(Rest, n, Rest[1]))
Turned(n) == Reverse(SubSeq(Rest, 1, n)) \o SubSeq(Rest, n + 1, Len(Rest))

Shuffle(op, n) ==
    \/ op \in {"PICK", "PICKCP", "INSERT", "INSERTCP"}
       /\ IF n \in {0, 1} THEN Becomes(Rest) ELSE n \in DOMAIN Rest /\ Moves(op, n)
    \/ op = "REVERSE" /\ n \in 0..Len(Rest) /\ Becomes(Turned(n))
    \/ op = "REVERSEP" /\ n \in 0..Len(Rest) /\ Becomes(<<values[1]>> \o Turned(n))

Shuffles == {"PICK", "PICKCP", "INSERT", "INSERTCP"}
Reversals == {"REVERSE", "REVERSEP"}
(* Too few values, a count that is no integer or reaches below the bottom; *)
(* INSERT may always refuse to move, and a computation its operands.       *)
MayFail(op) ==
    IF op \in Shuffles \cup Reversals
    THEN \/ values = <<>> \/ values[1][1] # "int" \/ values[1][2] \notin 0..Len(Rest)
         \/ op = "INSERT" /\ values[1][2] > 1
    ELSE op \in {"DUP", "DROP"} => values = <<>>
MayTrap(op) == op \in Shuffles \cup {"DIV", "MOD"}

(* A relative jump goes as many steps as its operand says, which is a      *)
(* signed number; the next instruction follows one that is not taken.      *)
Jumps == {"JMP", "JMPR", "JMPC", "JMPCR"}
Jump(op, pc, operand, goal) ==
    /\ op \in {"JMPC", "JMPCR"} => values # <<>> /\ values[1][1] = "bool"
    /\ Becomes(IF op \in {"JMPC", "JMPCR"} THEN Tail(values) ELSE values)
    /\ IF op \in {"JMPC", "JMPCR"} /\ ~values[1][2] THEN goal = (pc + 1) % 2^width
       ELSE IF op \in {"JMPR", "JMPCR"} THEN goal = (pc + operand) % 2^width
       ELSE goal = operand

Next ==
    /\ fate = "running"
    /\ LET op == ran'.op operands == ran'.operands answer == ran'.out IN
       \/ op = "DUP" /\ values # <<>> /\ Becomes(<<values[1]>> \o values)
       \/ op = "DROP" /\ values # <<>> /\ Becomes(Tail(values))
       \/ values # <<>> /\ values[1][1] = "int" /\ Shuffle(op, values[1][2])
       \/ op \in Jumps /\ fate' = "running" /\ Jump(op, operands[1], operands[2], answer[1])
       \/ /\ op \notin {"DUP", "DROP"} \cup Shuffles \cup Reversals \cup Jumps
          /\ Len(operands) <= Len(values) /\ SubSeq(values, 1, Len(operands)) = operands
          /\ Becomes(answer \o Under(Len(operands)))
       \/ fate' = "error" /\ MayFail(op) /\ UNCHANGED values
       \/ fate' = "fault" /\ MayTrap(op) /\ UNCHANGED values

Spec == Init /\ [][Next]_vars
=============================================================================
