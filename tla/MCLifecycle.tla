----------------------------- MODULE MCLifecycle -----------------------------
(* Lifecycle.tla for TLC: directories of files that import one another.    *)
EXTENDS Lifecycle

CONSTANTS i1, i2, r1, r2, l1

None == <<>>
Directory(main, files, declares, imports, exports) ==
    [main |-> main, files |-> files, declares |-> declares,
     imports |-> [f \in files |-> IF f \in DOMAIN imports THEN imports[f] ELSE <<>>],
     exports |-> [f \in files |-> IF f \in DOMAIN exports THEN exports[f] ELSE {}],
     broken |-> {}, keep_dll |-> FALSE,
     classes |-> {}, methods |-> {}, data |-> None, objects |-> {}]

Same(files) == [f \in files |-> f]

(* A cycle, a diamond, functions in each. *)
Diamond == Directory("m", {"m", "a", "b", "c"}, Same({"m", "a", "b"}),
    ("m" :> <<"a", "b">> @@ "a" :> <<"c", "m">> @@ "b" :> <<"c", "a">>),
    ("m" :> {"main", "init"} @@ "a" :> {"predefined", "init", "autorun"}
        @@ "b" :> {"init"} @@ "c" :> {"autorun"}))

(* Names that differ from those of the files, a main file that imports     *)
(* itself, a file that is not there or does not load, no main function.    *)
Misnamed == Directory("m", {"m", "a", "b"}, ("m" :> "b" @@ "a" :> "a" @@ "b" :> "b"),
    ("m" :> <<"a">> @@ "a" :> <<"b", "m">>), ("m" :> {"autorun"} @@ "a" :> {"init"}))
ItsOwn == Directory("m", {"m"}, Same({"m"}), ("m" :> <<"m">>), ("m" :> {"main"}))
Lacking == Directory("m", {"m", "a"}, Same({"m", "a"}),
    ("m" :> <<"a", "z">>), ("m" :> {"main"}))
Broken == [Directory("m", {"m", "a"}, Same({"m", "a"}),
    ("m" :> <<"a">>), ("m" :> {"main"})) EXCEPT !.broken = {"a"}]
Empty == Directory("m", {"m"}, Same({"m"}), None, None)

(* Objects: a class whose destructor is in the main module, or in one that *)
(* is not loaded; a library; both with the same name for their types.      *)
Plain == Directory("m", {"m"}, Same({"m"}), None, ("m" :> {"init", "main"}))
Destroying == [Plain EXCEPT !.classes = {"c"}, !.data = (l1 :> "d"),
                            !.methods = {<<"m", "destructor">>}, !.objects = {i1, r1}]
Replacing == [Destroying EXCEPT !.methods = {}, !.objects = {i1, r1, r2}]
TwoInstances == [Destroying EXCEPT !.data = None, !.objects = {i1, i2}]
Redefining == [Plain EXCEPT !.classes = {"c"},
                            !.methods = {"m"} \X {"destructor", "normal"}
                                  \union {<<"z", "constructor">>, <<"z", "destructor">>},
                            !.objects = {i1}]
Sharing == [Plain EXCEPT !.classes = {"d"}, !.data = (l1 :> "d"), !.objects = {i1, r1}]
Keeping == [Plain EXCEPT !.keep_dll = TRUE, !.data = (l1 :> "d"),
                         !.objects = {r1, r2}]

AllPrograms == {Diamond, Misnamed, ItsOwn, Lacking, Broken, Empty,
                Destroying, Replacing, TwoInstances, Redefining, Sharing, Keeping}
=============================================================================
