---------------------------- MODULE MCScheduler ----------------------------
(* Scheduler.tla for TLC: which instructions the programs of a run use.    *)
EXTENDS Scheduler, TLC

CONSTANTS m1

OneMutex == {m1}

AllInstrs == {"COMPUTE", "TFK", "TWAIT", "TEXIT", "RETURN", "HALT", "TSUSPEND",
              "TRESUME", "MTXLCK", "MTXUNLCK", "DBG_START", "EVENT", "DESTRUCTOR"}

(* Once the debugger has started: threads that come, compute and end. *)
FewInstrs == {"COMPUTE", "RETURN", "TEXIT", "TFK", "DBG_START"}
=============================================================================
