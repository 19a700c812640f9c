------------------------------- MODULE MCCalls -------------------------------
(***************************************************************************)
(* Calls for TLC.  Each program uses the instructions that meet in one     *)
(* mechanism.                                                              *)
(***************************************************************************)
EXTENDS Calls

Program(os, ls, as, frames, given, shares, nf, conts, pcs, height, nk) ==
    [ops |-> os, labels |-> ls, args |-> as, frames |-> frames, given |-> given, shares |-> shares,
     funcs |-> nf, conts |-> conts, pcs |-> pcs, height |-> height, kernels |-> nk]
Generating == Program({"PUSH", "POP", "NFUNCMK", "CALL", "RETURN", "YIELD"},
                      {"g"}, {0}, 4, <<"f">>, FALSE, 2, 0, 1, 1, 1)
TailCalling == Program({"PUSH", "POP", "CALL", "TAILCALL", "RETURN", "YIELD"},
                       {}, {0}, 3, <<"f", "g">>, FALSE, 2, 0, 1, 1, 1)
Passing == Program({"PUSH", "POP", "CALL", "RETURNTO", "RETNONE", "LIFT", "YIELD"},
                   {}, {0, 1}, 3, <<"f">>, FALSE, 1, 0, 2, 2, 1)
Closing == Program({"LAMBDAMK", "PROMMK", "CALL", "RETNONE", "PROMC", "collect", "discard"},
                   {"f"}, {0}, 2, <<>>, TRUE, 2, 0, 1, 2, 3)
Answering == Program({"POP", "PROMMK", "CALL", "PROMC", "collect", "discard"},
                     {"f"}, {0}, 1, <<>>, TRUE, 2, 0, 1, 2, 1)
GoingBack == Program({"PUSH", "CONTMK", "CALL", "RETURN", "YIELD"},
                     {"f"}, {0}, 3, <<"f">>, FALSE, 2, 1, 2, 2, 1)
Trapping == Program({"POP", "FUNCMK", "CONTMK", "CALL", "TAILCALL", "RETNONE", "TRAPSET", "TRAP"},
                    {"f"}, {0}, 3, <<>>, FALSE, 2, 1, 2, 1, 1)
GoingBackTwice == Program({"CONTMK", "CALL", "RETNONE", "collect", "discard"},
                          {"f"}, {0}, 3, <<>>, FALSE, 2, 2, 1, 1, 3)
Nesting == Program({"PUSH", "CALL", "YIELD", "collect"},
                   {}, {0}, 3, <<"f", "g">>, FALSE, 2, 0, 1, 1, 3)
AllPrograms == {Generating, TailCalling, Passing, Closing, Answering,
                GoingBack, Trapping, GoingBackTwice, Nesting}

(* No instruction looks at the last one. *)
CallsView == <<stack, funcs, kernels, traced, held, status, program, lowest, careful>>
=============================================================================
