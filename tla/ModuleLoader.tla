---------------------------- MODULE ModuleLoader ----------------------------
(***************************************************************************)
(* Which files become modules of the virtual machine, and in which order   *)
(* (vm/vm.c, the loading queue of vm/vm_infrastructure.c).  A program is   *)
(* a directory of files: what each declares as its name, imports and       *)
(* exports, and which of them cannot be loaded.                            *)
(***************************************************************************)
EXTENDS Naturals, Sequences, SequencesExt, FiniteSetsExt

CONSTANTS
    Blank,        (* the file of module 0, which no program has *)
    NoName        (* "noname": the name of a module without module section *)

(* -- The queue ----------------------------------------------------------- *)

Queued(q, n) == \E i \in DOMAIN q : q[i].name = n

AppendName(q, n, loaded) ==
    IF Queued(q, n) THEN q ELSE Append(q, [name |-> n, loaded |-> loaded])

Unloaded(q) == {i \in DOMAIN q : ~ q[i].loaded}

AppendImports(q, names) ==
    LET After[n \in 0 .. Len(names)] ==
            IF n = 0 THEN q ELSE AppendName(After[n - 1], names[n], FALSE)
    IN After[Len(names)]

(* -- A module ------------------------------------------------------------ *)

ModuleName(p, f) == IF f \in DOMAIN p.declares THEN p.declares[f] ELSE NoName

(* All sections of the file, and every operand that names an entry of the  *)
(* data section names one that is there.                                   *)
Loadable(p, f) == f \in p.files /\ f \notin p.broken

(* Mutant: the module's own name is left to be loaded. *)
QueueItself(p, q, f) ==
    AppendName(AppendImports(q, p.imports[f]), ModuleName(p, f), FALSE)

(* The imports are queued before the module's own name is. *)
QueueAfter(p, q, f) ==
    AppendName(AppendImports(q, p.imports[f]), ModuleName(p, f), TRUE)

NewModule(p, f, id) ==
    [id |-> id, file |-> f, name |-> ModuleName(p, f), exports |-> p.exports[f]]

BlankModule == [id |-> 0, file |-> Blank, name |-> Blank, exports |-> {}]

(* virtual_machine_module_lookup_by_name: the first of that name. *)
FirstNamed(modules, n) ==
    LET found == {i \in DOMAIN modules : modules[i].name = n}
    IN IF found = {} THEN 0 ELSE Min(found)

(* -- Reference: what an import promises ---------------------------------- *)

(* The files that the imports lead to from the main file. *)
Imported(p) ==
    LET Reached[n \in 0 .. (Cardinality(p.files) + 1)] ==
            IF n = 0 THEN {p.main}
            ELSE Reached[n - 1] \union
                    UNION {ToSet(p.imports[f]) : f \in Reached[n - 1] \intersect p.files}
    IN Reached[Cardinality(p.files) + 1]

(* Every file is called what it says it is called, and the main file does  *)
(* not import itself: its imports are queued before its name is.           *)
WellNamed(p) ==
    /\ p.main \in DOMAIN p.declares
    /\ \A f \in DOMAIN p.declares : p.declares[f] = f
    /\ p.main \notin ToSet(p.imports[p.main])
    /\ \A f \in p.files : NoName \notin ToSet(p.imports[f])
=============================================================================
