------------------------------- MODULE Scopes -------------------------------
(***************************************************************************)
(* What the variables of a program promise: a scope maps names to values,  *)
(* a name means its value in the first scope that has one, and each        *)
(* instruction gives its name, in its scope, the value that its operand    *)
(* has when it starts, and changes nothing else.                           *)
(***************************************************************************)
EXTENDS FiniteSetsExt, Sequences

CONSTANTS
    Names,       (* identifiers *)
    Values,      (* values of literals *)
    Undefined    (* the value of a name that has none *)

VARIABLES
    env,         (* per scope, per name: its value or Undefined *)
    state,       (* running, failed after a runtime error, or ended *)
    ran          (* the last instruction, with its name and its operand *)

absVars == <<env, state, ran>>

(* Where a name is looked for. *)
Environment == <<"head", "outer">>
Order == <<"frame", "head", "outer", "module", "global">>
Scope == {Order[i] : i \in DOMAIN Order}

Nothing == [s \in Scope |-> [n \in Names |-> Undefined]]

Pops == {"POP", "POPC", "POPCX", "POPCL", "POPM", "POPG"}
NoneYet == [op |-> "none", name |-> Undefined, operand |-> Undefined]

(* The function around the current one may have variables. *)
Init ==
    /\ env \in {[Nothing EXCEPT !["outer"] = f] : f \in [Names -> Values \union {Undefined}]}
    /\ state = "running"
    /\ ran = NoneYet

(* The first scope of a path that has the name; 0 for none. *)
First(e, path, n) ==
    LET having == {i \in DOMAIN path : e[path[i]][n] # Undefined}
    IN  IF having = {} THEN 0 ELSE Min(having)

Meaning(e, operand) ==
    IF operand \in Values
    THEN operand
    ELSE LET i == First(e, Order, operand)
         IN  IF i = 0 THEN Undefined ELSE e[Order[i]][operand]

(* The scope an instruction assigns the name in: POPC and POPCX take the   *)
(* first frame of the environment that has the name.                       *)
Target(e, op, n) ==
    LET i == First(e, Environment, n)
    IN  CASE op = "POP"   -> "frame"
          [] op = "POPCL" -> "head"
          [] op = "POPM"  -> "module"
          [] op = "POPG"  -> "global"
          [] OTHER        -> IF i = 0 THEN "head" ELSE Environment[i]

(* An operand without a meaning is an error, and so is to replace with     *)
(* POPCX a variable that is in no frame of the environment.                *)
Fails(e, op, n, operand) ==
    \/ Meaning(e, operand) = Undefined
    \/ op = "POPCX" /\ First(e, Environment, n) = 0

Assign(op, n, operand) ==
    /\ state = "running"
    /\ ran' = [op |-> op, name |-> n, operand |-> operand]
    /\ IF Fails(env, op, n, operand)
       THEN state' = "failed" /\ UNCHANGED env
       ELSE /\ env' = [env EXCEPT ![Target(env, op, n)][n] = Meaning(env, operand)]
            /\ UNCHANGED state

End == state' = "ended" /\ env' = Nothing /\ UNCHANGED ran

Next == End \/ \E op \in Pops, n \in Names, o \in Names \union Values : Assign(op, n, o)

Spec == Init /\ [][Next]_absVars
=============================================================================
