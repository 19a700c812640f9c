---------------------------- MODULE MCCompositeData ----------------------------
(***************************************************************************)
(* Instructions for TLC.  Of programs on composite data, two numbers serve *)
(* as elements and as indexes, so that an index may lie one past the end;  *)
(* two structures may hold each other and themselves.  Hashes, whose nodes *)
(* have many forms, come alone with two numbers and in twos with one; one  *)
(* more program hands a name to the instructions that do not resolve it.   *)
(* Across kinds the structures only hold each other's handles.             *)
(*                                                                         *)
(* Of programs on the stack, one moves objects about a stack of five, one  *)
(* computes on every pair of four-bit integers, one jumps, one mixes       *)
(* scalars of all types, and one converts strings and characters, whose    *)
(* words are of ten bits so that a character may take two bytes.           *)
(*                                                                         *)
(* Here too is how the state maps to that of the two promises, DataTypes   *)
(* and ValueStack.                                                         *)
(***************************************************************************)
EXTENDS Instructions

Data(kinds, cells, numbers, names) ==
    [kinds |-> kinds, cells |-> cells, numbers |-> numbers, names |-> names, width |-> 1]
Scalar(ops, literals, depth, width, types) ==
    [kinds |-> {}, cells |-> 0, numbers |-> {}, names |-> {}, ops |-> ops, literals |-> literals,
     depth |-> depth, width |-> width, types |-> types]

Ints(ns) == {<<"int", n>> : n \in ns}
Strs == {<<"str", s>> : s \in {<<>>, <<45>>, <<48, 55>>, <<49, 50>>, <<48, 120, 70>>, <<48, 98, 50>>}}
Others == {<<"bool", TRUE>>, <<"float", 1>>, <<"none", 0>>, <<"nan", 1>>, <<"inf", 0>>, <<"inf", 1>>,
           <<"char", 2>>, <<"str", <<49>>>>}
MovesOps == {"PUSH", "DUP", "DROP", "PICK", "PICKCP", "INSERT", "INSERTCP", "REVERSE", "REVERSEP"}
ArithmeticOnly == {"ADD", "SUB", "MUL", "DIV", "MOD", "LSHIFT", "RSHIFT", "ANDA", "ORA", "XORA"}
Comparisons == {"EQ", "NE", "L", "G", "LE", "GE"}

SmallPrograms ==
    {Data({"list", "pair"}, 2, {0, 1}, {}), Data({"array"}, 2, {0, 1}, {}),
     Data({"hash"}, 1, {0, 1}, {}), Data({"hash"}, 2, {0}, {}),
     Data({"hash", "pair"}, 1, {0}, {"x"}),
     Scalar(MovesOps, Ints({2, 3}), 5, 4, {}),
     Scalar(ArithmeticOnly \cup {"PUSH", "NEG", "NOTA"}, Ints({1}), 2, 4, {}),
     Scalar({"PUSH", "JMP", "JMPR", "JMPC", "JMPCR"},
            {<<"bool", TRUE>>, <<"bool", FALSE>>, <<"int", 0>>}, 1, 4, {}),
     Scalar(ArithmeticOnly \cup Comparisons \cup {"PUSH", "DROP", "NOTL", "ANDL", "ORL", "XORL", "NEG",
              "TYPE", "TYPEUP"},
            Ints({0, 3}) \cup Others, 2, 3, {}),
     Scalar({"PUSH", "DROP", "CONVERT", "TYPE", "TYPEP", "SIZE"},
            Ints({-1, 2, 130}) \cup Strs, 1, 10, {"int", "str", "char", "symbol", "bool"})}

SpellingOf(v) == CASE v = <<"bool", TRUE>> -> <<116, 114, 117, 101>>
                   [] v = <<"bool", FALSE>> -> <<102, 97, 108, 115, 101>>
                   [] v[1] = "float" -> <<48, 46, 48>>
                   [] OTHER -> <<105, 110, 116>>

(* The structures as values: chains, slots and counts are the data types'  *)
(* own affair.                                                             *)
ValueOf(cell) == [kind |-> cell.kind, val |->
    CASE cell.kind = "list"  -> cell.data.next
      [] cell.kind = "array" -> A!Elements(cell.data)
      [] cell.kind = "hash"  -> [i \in DOMAIN cell.data.nodes |->
                                   <<cell.data.nodes[i].key, cell.data.nodes[i].value>>]
      [] cell.kind = "pair"  -> <<cell.data.car, cell.data.cdr>>]
Promise == INSTANCE DataTypes WITH value <- [r \in DOMAIN heap |-> ValueOf(heap[r])]

(* Every instruction does to the values what the data types promise, and   *)
(* answers every question from them, up to the step that leaves what C     *)
(* defines (vm/vm_cpu_composite_ds.c:33).                                  *)
ImplementsDataTypes == Promise!Spec

(* Seen from the top, the stack is a sequence of values, and every         *)
(* instruction does to it what it promises, PICK included; a relative jump *)
(* goes as far as its operand says (vm/vm_cpu_alu.c:304).                  *)
AsSequence == INSTANCE ValueStack WITH values <- C!Values(stack), width <- w
ImplementsValueStack == AsSequence!Spec

(* No instruction looks at the last one or at what it pushed. (TLC writes  *)
(* states to disk, and a function only once it was compared with another.) *)
DataView == <<heap, status, program, careful, stack.objs = <<>>, C!Shape(stack), fate>>
=============================================================================
