------------------------------ MODULE FrameTree ------------------------------
(***************************************************************************)
(* What the running stack of a thread promises whoever writes functions:   *)
(* an order of frames, each with the frames that yielded to it in the      *)
(* order they did, and no pointers.  The text of a function has `length`   *)
(* instructions and begins again at its end.  What is executed, with its   *)
(* operands, is `instr`; where a continuation leads is left open.          *)
(***************************************************************************)
EXTENDS Naturals, SequencesExt

VARIABLES frames, instr, length

Entered(address, n) == [start |-> address, pc |-> address, args |-> n, stack |-> <<>>, gens |-> <<>>]
Running == Last(frames)
Below == Front(frames)
Onward(f) == [f EXCEPT !.pc[2] = (@ + 1) % length]
With(f, v) == [f EXCEPT !.stack = Append(@, v)]
(* The frame under the running one is given a value, if there is one.      *)
Given(v) == IF Below = <<>> THEN <<>> ELSE Front(Below) \o <<With(Last(Below), v)>>

Init == frames = <<Entered(<<"main", 0>>, 0)>>

Goes(f) == frames' = Below \o <<f>>
Moves == /\ instr'[1] \in {"FUNCMK", "NFUNCMK", "LAMBDAMK", "PROMMK", "CONTMK", "TRAPSET"}
         /\ Goes(Onward(Running))
Pushes == instr'[1] \in {"PUSH", "ANSWER"} /\ Goes(With(Onward(Running), instr'[2]))
KeepsAnswer == instr'[1] = "PROMC" /\ Goes(With(With(Onward(Running), instr'[2]), instr'[3]))
Pops == instr'[1] = "POP" /\ Goes([Onward(Running) EXCEPT !.stack = Front(@)])

(* The oldest generator of that address goes on, with its new arguments;   *)
(* a tail call gives up the caller and all that is suspended in it.        *)
Enters ==
    LET address == instr'[2]
        n == instr'[3]
        caller == Onward(Running)
        waiting == {k \in DOMAIN caller.gens : caller.gens[k].start = address}
        k == CHOOSE x \in waiting : \A y \in waiting : x <= y
        calls == IF waiting = {} THEN <<caller, Entered(address, n)>>
                 ELSE <<[caller EXCEPT !.gens = RemoveAt(@, k)],
                        [caller.gens[k] EXCEPT !.args = n]>>
    IN \/ instr'[1] = "CALL" /\ frames' = Below \o calls
       \/ instr'[1] = "TAILCALL" /\ frames' = Below \o Tail(calls)

Returns == instr'[1] = "RETURN" /\ frames' = Given(Last(Running.stack))
ReturnsNone == instr'[1] = "RETNONE" /\ frames' = Given(<<"null">>)
(* The value is handed over and kept.                                      *)
Yields ==
    /\ instr'[1] = "YIELD"
    /\ LET caller == Last(Given(Last(Running.stack)))
       IN frames' = Front(Below) \o <<[caller EXCEPT !.gens = Append(@, Onward(Running))]>>
SendsBack ==
    /\ instr'[1] = "RETURNTO"
    /\ frames' = Front(Below) \o <<[Last(Below) EXCEPT !.pc[2] = 0], Onward(Running)>>
Lifts ==
    /\ instr'[1] = "LIFT"
    /\ LET left == Len(Running.stack) - instr'[2]
       IN frames' = Front(Below)
                      \o <<[Last(Below) EXCEPT !.stack =
                              @ \o Reverse(SubSeq(Running.stack, left + 1, left + instr'[2]))],
                           [Onward(Running) EXCEPT !.stack = SubSeq(@, 1, left)]>>
Jumps == instr'[1] = "TRAP" /\ Goes([Running EXCEPT !.pc = Last(frames').pc])
Continues == instr'[1] = "CONT"

Next == \/ Moves \/ Pushes \/ KeepsAnswer \/ Pops \/ Enters \/ Returns \/ ReturnsNone
        \/ Yields \/ SendsBack \/ Lifts \/ Jumps \/ Continues
Spec == Init /\ [][Next]_frames
=============================================================================
